---- MODULE Spec2Model ----
(***************************************************************************)
(* A model of bisque's doubly-threaded parse tree: the navigational fields *)
(* of every PageElement (parent, next_element, previous_element,           *)
(* next_sibling, previous_sibling), each Tag's contents list, the          *)
(* structural mutators of element/tag_core/page_element.py, and the Bisque *)
(* object's event-driven tree construction (main.py).                      *)
(*                                                                         *)
(* Python lists are 0-based; the sequences below are 1-based, so element i *)
(* of a list is element i + 1 of its sequence.  A raised exception is an   *)
(* outcome of the operation: whatever the handler had already assigned     *)
(* when it raised stays assigned.                                          *)
(***************************************************************************)
EXTENDS Integers, Sequences, FiniteSets, TLC

\* Number of page elements besides the document object.
NumNodes == 4

\* Number of those that are Tag objects; the rest are NavigableStrings.
NumTags == 2

\* Longest *args tuple handed to replace_with / insert_before / insert_after.
MaxArgs == 2

\* Number of mutator calls made on a built document.
MaxCalls == 2

\* The Bisque object (the document root, named ROOT_TAG_NAME).
Root == 0

\* Python's None, as the value of a navigational field or of an argument.
Null == -1

\* Outcome of a loop that never exits (its state no longer changes).
Diverge == -2

Nodes == 0 .. NumNodes

\* Tag objects (the Bisque object is a Tag); the other nodes are
\* NavigableStrings, which the walks below never descend into.
IsTag(n) == n \in 0 .. NumTags

Min(a, b) == IF a < b THEN a ELSE b

\* A loop over a structure that no longer changes either exits within one
\* pass over the nodes or never does.
Fuel == NumNodes + 2

----------------------------------------------------------------------------
(* Python list primitives.                                                 *)

\* lst[i], with Python's negative indices; Null stands for IndexError.
PyGet(lst, i) ==
  IF i >= 0
    THEN IF i < Len(lst) THEN lst[i + 1] ELSE Null
    ELSE IF 0 - i <= Len(lst) THEN lst[Len(lst) + i + 1] ELSE Null

\* del lst[i] for an index 0 <= i < len(lst).
PyDel(lst, i) == SubSeq(lst, 1, i) \o SubSeq(lst, i + 2, Len(lst))

\* list.insert(i, x): a negative i counts from the end, and the index is
\* clamped to [0, len].
PyInsert(lst, i, x) ==
  LET j == IF i < 0 THEN (IF Len(lst) + i < 0 THEN 0 ELSE Len(lst) + i)
           ELSE Min(i, Len(lst))
  IN SubSeq(lst, 1, j) \o <<x>> \o SubSeq(lst, j + 1, Len(lst))

\* The result of an operation: the tree it leaves and how it ended.
Ok(t) == [t |-> t, res |-> "ok"]
Raise(t, e) == [t |-> t, res |-> e]

\* obj.<f> = v
Set(t, f, n, v) == [t EXCEPT ![f][n] = v]

\* One assignment statement `if c: n.<f> = v`.
If(c, f, n, v) == [c |-> c, f |-> f, n |-> n, v |-> v]
Do(f, n, v) == [c |-> TRUE, f |-> f, n |-> n, v |-> v]

RECURSIVE Run(_, _)
\* The statements of a straight-line block, executed first to last.
Run(t, stmts) ==
  IF stmts = <<>> THEN t
  ELSE Run(IF Head(stmts).c
             THEN Set(t, Head(stmts).f, Head(stmts).n, Head(stmts).v)
             ELSE t,
           Tail(stmts))

----------------------------------------------------------------------------
(* element/tag_core/tag.py and page_element.py: the structural mutators.   *)

\* Tag.index: the position of `element` in self.contents by identity;
\* Null stands for the ValueError raised when it is not there.
index(t, self, element) ==
  LET c == t.contents[self]
      hits == {i \in 1 .. Len(c) : c[i] = element}
  IN IF hits = {} THEN Null
     ELSE (CHOOSE i \in hits : \A j \in hits : i <= j) - 1

RECURSIVE LastChildWalk(_, _, _)
\* The while loop of _last_descendant.
LastChildWalk(t, last_child, fuel) ==
  IF fuel = 0 THEN Diverge
  ELSE IF IsTag(last_child) /\ t.contents[last_child] # <<>>
    THEN LastChildWalk(t, t.contents[last_child][Len(t.contents[last_child])],
                       fuel - 1)
    ELSE last_child

\* PageElement._last_descendant(is_initialized), accept_self = True.
_last_descendant(t, self, is_initialized) ==
  IF is_initialized /\ t.next_sibling[self] # Null
    THEN t.previous_element[t.next_sibling[self]]
    ELSE LastChildWalk(t, self, Fuel)

\* The body of extract after last_child is known: the fields it reads
\* (self.previous_element, last_child.next_element, self's siblings) are
\* none of them assigned before they are read.
ExtractLinks(t, self, last_child, next_element, pe, ps, ns) ==
  Run(t, <<
    If(pe # Null /\ pe # next_element, "next_element", pe, next_element),
    If(next_element # Null /\ next_element # pe,
       "previous_element", next_element, pe),
    Do("previous_element", self, Null),
    Do("next_element", last_child, Null),
    Do("parent", self, Null),
    If(ps # Null /\ ps # ns, "next_sibling", ps, ns),
    If(ns # Null /\ ns # ps, "previous_sibling", ns, ps),
    Do("previous_sibling", self, Null),
    Do("next_sibling", self, Null) >>)

\* extract, from `last_child = self._last_descendant()` on.
ExtractFrom(t, self, last_child) ==
  IF last_child = Diverge THEN Raise(t, "hang")
  ELSE IF last_child = Null THEN Raise(t, "AttributeError")
  ELSE Ok(ExtractLinks(t, self, last_child, t.next_element[last_child],
                       t.previous_element[self], t.previous_sibling[self],
                       t.next_sibling[self]))

\* extract, after `del self.parent.contents[_self_index]`.
ExtractUnlink(t, self) == ExtractFrom(t, self, _last_descendant(t, self, TRUE))

\* del self.parent.contents[i]; Null stands for the ValueError of index().
ExtractDel(t, self, i) ==
  IF i = Null THEN Raise(t, "ValueError")
  ELSE ExtractUnlink([t EXCEPT !.contents[t.parent[self]] = PyDel(@, i)], self)

\* PageElement.extract(_self_index): _self_index = Null when not passed.
extract(t, self, _self_index) ==
  IF t.parent[self] # Null
    THEN ExtractDel(t, self, IF _self_index = Null
                               THEN index(t, t.parent[self], self)
                               ELSE _self_index)
    ELSE ExtractUnlink(t, self)

RECURSIVE NextSiblingOfAncestor(_, _, _)
\* The while loop of insert that looks for the element following `parent`
\* and its ancestors: the nearest next_sibling going up, or Null.
NextSiblingOfAncestor(t, parent, fuel) ==
  IF parent = Null THEN Null
  ELSE IF fuel = 0 THEN Diverge
  ELSE IF t.next_sibling[parent] # Null THEN t.next_sibling[parent]
  ELSE NextSiblingOfAncestor(t, t.parent[parent], fuel - 1)

\* insert, its last statements: new_childs_last_element.next_element is set
\* to nxt, that element is linked back, and contents is spliced.
InsertSplice(t, self, position, new_child, new_childs_last_element, nxt) ==
  IF nxt = Diverge THEN Raise(t, "hang")
  ELSE Ok([Run(t, <<
             Do("next_element", new_childs_last_element, nxt),
             If(nxt # Null, "previous_element", nxt,
                new_childs_last_element) >>)
           EXCEPT !.contents[self] = PyInsert(@, position, new_child)])

\* insert, the branch `if position >= len(self.contents)`: t is the tree
\* with new_child.next_sibling = None already assigned.
InsertAtEnd(t, self, position, new_child, new_childs_last_element) ==
  InsertSplice(t, self, position, new_child, new_childs_last_element,
               NextSiblingOfAncestor(t, self, Fuel))

\* insert's else branch without
\* `new_child.next_sibling.previous_sibling = new_child`: a faulty variant,
\* which leaves next_child pointing back at its old previous sibling.
InsertInsideOneWay(t, self, position, new_child, new_childs_last_element, next_child) ==
  IF next_child = Null THEN Raise(t, "IndexError")
  ELSE InsertSplice(Set(t, "next_sibling", new_child, next_child),
                    self, position, new_child, new_childs_last_element,
                    next_child)

\* insert, the else branch: next_child = self.contents[position].
InsertInside(t, self, position, new_child, new_childs_last_element, next_child) ==
  IF next_child = Null THEN Raise(t, "IndexError")
  ELSE InsertSplice(Run(t, <<Do("next_sibling", new_child, next_child),
                             Do("previous_sibling", next_child, new_child)>>),
                    self, position, new_child, new_childs_last_element,
                    next_child)

\* insert, from `new_childs_last_element = new_child._last_descendant(False)`.
InsertTail(t, self, position, new_child, new_childs_last_element) ==
  IF new_childs_last_element = Diverge THEN Raise(t, "hang")
  ELSE IF position >= Len(t.contents[self])
    THEN InsertAtEnd(Set(t, "next_sibling", new_child, Null), self, position,
                     new_child, new_childs_last_element)
    ELSE InsertInside(t, self, position, new_child, new_childs_last_element,
                      PyGet(t.contents[self], position))

\* insert, the statements that link new_child to what precedes it:
\* previous_child is Null when position == 0, and pcl is
\* previous_child._last_descendant(False).
InsertHead(t, self, position, new_child, previous_child, pcl) ==
  IF position # 0 /\ previous_child = Null THEN Raise(t, "IndexError")
  ELSE IF pcl = Diverge THEN Raise(t, "hang")
  ELSE InsertTail(
         Run(t, <<
           If(position = 0, "previous_sibling", new_child, Null),
           If(position = 0, "previous_element", new_child, self),
           If(position # 0, "previous_sibling", new_child, previous_child),
           If(position # 0, "next_sibling", previous_child, new_child),
           If(position # 0, "previous_element", new_child, pcl),
           Do("next_element", IF position = 0 THEN self ELSE pcl,
              new_child) >>),
         self, position, new_child,
         _last_descendant(t, new_child, FALSE))

\* previous_child._last_descendant(False), Null when there is no
\* previous_child.
PreviousLast(t, previous_child) ==
  IF previous_child = Null THEN Null
  ELSE _last_descendant(t, previous_child, FALSE)

\* insert, from `new_child.parent = self` on, given previous_child.
InsertWith(t, self, position, new_child, previous_child) ==
  InsertHead(t, self, position, new_child, previous_child,
             PreviousLast(t, previous_child))

\* insert, from `new_child.parent = self` on: position is already clamped
\* and new_child already extracted.
InsertLink(t, self, position, new_child) ==
  InsertWith(Set(t, "parent", new_child, self), self, position, new_child,
             IF position = 0 THEN Null
             ELSE PyGet(t.contents[self], position - 1))

\* insert, after new_child was extracted from its old parent (r is the
\* outcome of that extract, Ok when there was nothing to extract).
InsertAfterExtract(r, self, position, new_child) ==
  IF r.res # "ok" THEN r ELSE InsertLink(r.t, self, position, new_child)

\* insert without `position -= 1`: a faulty variant, which puts a child
\* moved down its parent's list one place too far.
InsertMoveNoShift(t, self, position, new_child, current_index) ==
  IF current_index = Null THEN Raise(t, "ValueError")
  ELSE InsertAfterExtract(
         IF t.parent[new_child] # Null THEN extract(t, new_child, Null)
         ELSE Ok(t),
         self, position, new_child)

\* insert, the block `if new_child.parent is not None`: current_index is
\* new_child's index when its parent is self (Null for the ValueError of
\* index()).
InsertMove(t, self, position, new_child, current_index) ==
  IF current_index = Null THEN Raise(t, "ValueError")
  ELSE InsertAfterExtract(
         IF t.parent[new_child] # Null THEN extract(t, new_child, Null)
         ELSE Ok(t),
         self,
         IF t.parent[new_child] = self /\ current_index < position
           THEN position - 1 ELSE position,
         new_child)

\* insert, from `position = min(position, len(self.contents))` on.
InsertClamped(t, self, position, new_child) ==
  InsertMove(t, self, position, new_child,
             IF t.parent[new_child] = self THEN index(t, self, new_child)
             ELSE 0)

\* insert of one PageElement that is not a Bisque object.
InsertOne(t, self, position, new_child) ==
  IF new_child = Null THEN Raise(t, "ValueError")
  ELSE IF new_child = self THEN Raise(t, "ValueError")
  ELSE InsertClamped(t, self, Min(position, Len(t.contents[self])), new_child)

RECURSIVE InsertEach(_, _, _, _)
\* insert of a Bisque object: its children (as listed when the call began)
\* are inserted one at a time at consecutive positions; r is the outcome so
\* far.
InsertEach(r, self, position, subchildren) ==
  IF r.res # "ok" \/ subchildren = <<>> THEN r
  ELSE InsertEach(InsertOne(r.t, self, position, Head(subchildren)),
                  self, position + 1, Tail(subchildren))

\* insert without the test `new_child is self`: a faulty variant, which
\* goes on to extract the tag and make it its own parent.
InsertUnchecked(t, self, position, new_child) ==
  IF new_child = Null THEN Raise(t, "ValueError")
  ELSE InsertClamped(t, self, Min(position, Len(t.contents[self])), new_child)

\* PageElement.insert(position, new_child).
insert(t, self, position, new_child) ==
  IF new_child = Null THEN Raise(t, "ValueError")
  ELSE IF new_child = self THEN Raise(t, "ValueError")
  ELSE InsertEach(Ok(t), self, position,
                  IF new_child = Root THEN t.contents[Root]
                  ELSE <<new_child>>)

\* PageElement.append(tag).
append(t, self, tag) == insert(t, self, Len(t.contents[self]), tag)

RECURSIVE InsertArgs(_, _, _, _)
\* for idx, replace_with in enumerate(args, start=my_index):
\*     old_parent.insert(idx, replace_with)
\* r is the outcome so far.
InsertArgs(r, old_parent, idx, args) ==
  IF r.res # "ok" \/ args = <<>> THEN r
  ELSE InsertArgs(insert(r.t, old_parent, idx, Head(args)),
                  old_parent, idx + 1, Tail(args))

\* any(x is y for x in args)
AnyIs(args, y) == \E i \in 1 .. Len(args) : args[i] = y

\* replace_with, from `my_index = self.parent.index(self)` on.
ReplaceAt(t, self, args, old_parent, my_index) ==
  IF my_index = Null THEN Raise(t, "ValueError")
  ELSE InsertArgs(extract(t, self, my_index), old_parent, my_index, args)

\* PageElement.replace_with(*args).
replace_with(t, self, args) ==
  IF t.parent[self] = Null THEN Raise(t, "ValueError")
  ELSE IF Len(args) = 1 /\ args[1] = self THEN Ok(t)
  ELSE IF AnyIs(args, t.parent[self]) THEN Raise(t, "ValueError")
  ELSE ReplaceAt(t, self, args, t.parent[self],
                 index(t, t.parent[self], self))

\* What replace_with returns on success: Null on its early return, else self.
ReplaceWithResult(self, args) ==
  IF Len(args) = 1 /\ args[1] = self THEN Null ELSE self

\* The list as it is: unwrap without `reversed`, a faulty variant, which
\* hoists the children in reverse order.
Unreversed(lst) == lst

\* reversed(lst)
Reversed(lst) == [i \in 1 .. Len(lst) |-> lst[Len(lst) + 1 - i]]

RECURSIVE InsertAllAt(_, _, _, _)
\* for child in children: my_parent.insert(my_index, child)
\* r is the outcome so far.
InsertAllAt(r, my_parent, my_index, children) ==
  IF r.res # "ok" \/ children = <<>> THEN r
  ELSE InsertAllAt(insert(r.t, my_parent, my_index, Head(children)),
                   my_parent, my_index, Tail(children))

\* unwrap, from `my_index = self.parent.index(self)` on; the children are
\* read after the extract, which leaves them alone.
UnwrapAt(t, self, my_parent, my_index) ==
  IF my_index = Null THEN Raise(t, "ValueError")
  ELSE InsertAllAt(extract(t, self, my_index), my_parent, my_index,
                   Reversed(t.contents[self]))

\* PageElement.unwrap().
unwrap(t, self) ==
  IF t.parent[self] = Null THEN Raise(t, "ValueError")
  ELSE UnwrapAt(t, self, t.parent[self], index(t, t.parent[self], self))

\* wrap with `wrap_inside.insert(0, me)` for the append: a faulty variant,
\* which puts the node before the children the container already had.
WrapPrepend(r, wrap_inside, me) ==
  IF r.res # "ok" THEN r ELSE insert(r.t, wrap_inside, 0, me)

\* wrap, after `me = self.replace_with(wrap_inside)` ended as r.
WrapAppend(r, wrap_inside, me) ==
  IF r.res # "ok" THEN r ELSE append(r.t, wrap_inside, me)

\* PageElement.wrap(wrap_inside).
wrap(t, self, wrap_inside) ==
  WrapAppend(replace_with(t, self, <<wrap_inside>>), wrap_inside,
             ReplaceWithResult(self, <<wrap_inside>>))

\* if isinstance(x, PageElement): x.extract()
ExtractIfElement(t, x) == IF x # Null THEN extract(t, x, Null) ELSE Ok(t)

\* The loop body with `parent.insert(index + 1, x)` whatever the offset: a
\* faulty variant of insert_after, which puts each successor right after the
\* node and so the successors in reverse order.
InsertBesideNoOffset(r, self, parent, shift, x) ==
  IF r.res # "ok" THEN r
  ELSE IF index(r.t, parent, self) = Null THEN Raise(r.t, "ValueError")
  ELSE insert(r.t, parent, index(r.t, parent, self) + Min(shift, 1), x)

\* The body of the sibling-insertion loops after the extract ended as r:
\* index = parent.index(self); parent.insert(index + shift, x).
InsertBeside(r, self, parent, shift, x) ==
  IF r.res # "ok" THEN r
  ELSE IF index(r.t, parent, self) = Null THEN Raise(r.t, "ValueError")
  ELSE insert(r.t, parent, index(r.t, parent, self) + shift, x)

RECURSIVE InsertBeforeLoop(_, _, _, _)
\* The loop of insert_before over its arguments; r is the outcome so far.
InsertBeforeLoop(r, self, parent, args) ==
  IF r.res # "ok" \/ args = <<>> THEN r
  ELSE InsertBeforeLoop(
         InsertBeside(ExtractIfElement(r.t, Head(args)), self, parent, 0,
                      Head(args)),
         self, parent, Tail(args))

\* insert_before without the override of Bisque: a faulty variant, in which
\* the document answers as any element without a parent does.
InsertBeforeOfElement(t, self, args) ==
  IF t.parent[self] = Null THEN Raise(t, "ValueError")
  ELSE IF AnyIs(args, self) THEN Raise(t, "ValueError")
  ELSE InsertBeforeLoop(Ok(t), self, t.parent[self], args)

\* PageElement.insert_before(*args); Bisque.insert_before for the document.
insert_before(t, self, args) ==
  IF self = Root THEN Raise(t, "NotImplementedError")
  ELSE IF t.parent[self] = Null THEN Raise(t, "ValueError")
  ELSE IF AnyIs(args, self) THEN Raise(t, "ValueError")
  ELSE InsertBeforeLoop(Ok(t), self, t.parent[self], args)

RECURSIVE InsertAfterLoop(_, _, _, _, _)
\* The loop of insert_after over its arguments; r is the outcome so far.
InsertAfterLoop(r, self, parent, offset, args) ==
  IF r.res # "ok" \/ args = <<>> THEN r
  ELSE InsertAfterLoop(
         InsertBeside(ExtractIfElement(r.t, Head(args)), self, parent,
                      1 + offset, Head(args)),
         self, parent, offset + 1, Tail(args))

\* PageElement.insert_after(*args); Bisque.insert_after for the document.
insert_after(t, self, args) ==
  IF self = Root THEN Raise(t, "NotImplementedError")
  ELSE IF t.parent[self] = Null THEN Raise(t, "ValueError")
  ELSE IF AnyIs(args, self) THEN Raise(t, "ValueError")
  ELSE InsertAfterLoop(Ok(t), self, t.parent[self], 0, args)

\* The body of the loop of decompose for element i: contents = [],
\* decomposed = True and clear().  Tag.clear() extracts the children, of
\* which none are left; the clear() of a string empties its __dict__, that is
\* all of its fields, before contents and decomposed are assigned again.
DecomposeWipe(t, i) ==
  IF IsTag(i)
    THEN Run(t, <<Do("contents", i, <<>>), Do("decomposed", i, TRUE)>>)
    ELSE Run(t, <<
           Do("parent", i, Null),
           Do("next_element", i, Null),
           Do("previous_element", i, Null),
           Do("next_sibling", i, Null),
           Do("previous_sibling", i, Null),
           Do("contents", i, <<>>),
           Do("decomposed", i, TRUE) >>)

RECURSIVE DecomposeLoop(_, _, _)
\* while i is not None: n = i.next_element; <wipe i>; i = n.  A string
\* already wiped has no next_element to read.
DecomposeLoop(t, i, fuel) ==
  IF i = Null THEN Ok(t)
  ELSE IF ~IsTag(i) /\ t.decomposed[i] THEN Raise(t, "AttributeError")
  ELSE IF fuel = 0 THEN Raise(t, "hang")
  ELSE DecomposeLoop(DecomposeWipe(t, i), t.next_element[i], fuel - 1)

\* decompose, after self.extract() ended as r.
DecomposeAfterExtract(r, self) ==
  IF r.res # "ok" THEN r ELSE DecomposeLoop(r.t, self, Fuel)

\* decompose without `self.extract()`: a faulty variant, whose loop runs on
\* from the element into whatever follows it in the document.
DecomposeInPlace(t, self) == DecomposeLoop(t, self, Fuel)

\* Tag.decompose().
decompose(t, self) == DecomposeAfterExtract(extract(t, self, Null), self)

\* PageElement.has_decomposed.
has_decomposed(t, self) == t.decomposed[self]

\* An iteration's outcome: what it yielded and how it ended.
Yield(seq, res) == [seq |-> seq, res |-> res]

RECURSIVE DescendantsWalk(_, _, _, _, _)
\* The while loop of Tag.descendants: yield current until it is stopNode;
\* reading None.next_element raises AttributeError.
DescendantsWalk(t, current, stopNode, yielded, fuel) ==
  IF current = stopNode THEN Yield(yielded, "ok")
  ELSE IF current = Null THEN Yield(yielded, "AttributeError")
  ELSE IF fuel = 0 THEN Yield(yielded, "hang")
  ELSE DescendantsWalk(t, t.next_element[current], stopNode,
                       Append(yielded, current), fuel - 1)

\* descendants with `stopNode = self._last_descendant()`: a faulty variant,
\* which stops one node early.
DescendantsStopEarly(t, self, last_descendant) ==
  IF last_descendant = Diverge THEN Yield(<<>>, "hang")
  ELSE IF last_descendant = Null THEN Yield(<<>>, "AttributeError")
  ELSE DescendantsWalk(t, PyGet(t.contents[self], 0), last_descendant, <<>>,
                       Fuel)

\* Tag.descendants, from `stopNode = self._last_descendant().next_element`.
DescendantsFrom(t, self, last_descendant) ==
  IF last_descendant = Diverge THEN Yield(<<>>, "hang")
  ELSE IF last_descendant = Null THEN Yield(<<>>, "AttributeError")
  ELSE DescendantsWalk(t, PyGet(t.contents[self], 0),
                       t.next_element[last_descendant], <<>>, Fuel)

\* Tag.descendants.
descendants(t, self) ==
  IF Len(t.contents[self]) = 0 THEN Yield(<<>>, "ok")
  ELSE DescendantsFrom(t, self, _last_descendant(t, self, TRUE))

----------------------------------------------------------------------------
(* main.py: the Bisque object's tree construction.  A soup record `s` holds *)
(* the tree (s.t), the per-node payload and the transient parse state.      *)

\* Bisque.ROOT_TAG_NAME.
ROOT_TAG_NAME == "[document]"

\* TreeBuilder.preserve_whitespace_tags of the HTML builders.
PreserveWhitespaceTags == {"pre", "textarea"}

\* TreeBuilder.string_containers of the HTML builders: tag name -> class.
StringContainers ==
  [rt |-> "RubyTextString", rp |-> "RubyParenthesisString",
   style |-> "Stylesheet", script |-> "Script", template |-> "TemplateString"]

\* Bisque.ASCII_SPACES: "\x20\x0a\x09\x0c\x0d".
ASCII_SPACES == {" ", "\n", "\t", "\f", "\r"}

\* collections.Counter: a missing key counts 0.
CounterGet(c, k) == IF k \in DOMAIN c THEN c[k] ELSE 0
CounterAdd(c, k, d) ==
  [x \in DOMAIN c \cup {k} |-> IF x = k THEN CounterGet(c, k) + d ELSE c[x]]

\* PageElement.setup(parent, previous_element, next_element,
\*                   previous_sibling, next_sibling), given what
\* self.parent.contents[-1] is (Null when there is no parent or no child).
SetupWith(t, self, parent, previous_element, next_element, previous_sibling, next_sibling) ==
  Run(t, <<
    Do("parent", self, parent),
    Do("previous_element", self, previous_element),
    If(previous_element # Null, "next_element", previous_element, self),
    Do("next_element", self, next_element),
    If(next_element # Null, "previous_element", next_element, self),
    Do("next_sibling", self, next_sibling),
    If(next_sibling # Null, "previous_sibling", next_sibling, self),
    Do("previous_sibling", self, previous_sibling),
    If(previous_sibling # Null, "next_sibling", previous_sibling, self) >>)

\* PageElement.setup.
setup(t, self, parent, previous_element, next_element, previous_sibling, next_sibling) ==
  SetupWith(t, self, parent, previous_element, next_element,
            IF previous_sibling = Null /\ parent # Null
               /\ t.contents[parent] # <<>>
              THEN PyGet(t.contents[parent], 0 - 1)
              ELSE previous_sibling,
            next_sibling)

RECURSIVE TagEq(_, _, _, _)
\* Tag.__eq__ (and the string comparison of two NavigableStrings): same
\* name, same attrs and, recursively, equal contents; `fuel` bounds the depth
\* of the tree.
TagEq(s, a, b, fuel) ==
  \/ a = b
  \/ /\ fuel > 0
     /\ IsTag(a) = IsTag(b)
     /\ IF IsTag(a)
          THEN /\ s.name[a] = s.name[b]
               /\ s.attrs[a] = s.attrs[b]
               /\ Len(s.t.contents[a]) = Len(s.t.contents[b])
               /\ \A i \in 1 .. Len(s.t.contents[a]) :
                    TagEq(s, s.t.contents[a][i], s.t.contents[b][i], fuel - 1)
          ELSE s.value[a] = s.value[b]

Top(stack) == stack[Len(stack)]
Pop(stack) == SubSeq(stack, 1, Len(stack) - 1)

\* popTag without `self.open_tag_counter[tag.name] -= 1`: a faulty variant.
PopTaggedKeepCount(s, tag) ==
  [s EXCEPT
     !.tagStack = Pop(@),
     !.preserve_whitespace_tag_stack =
        IF @ # <<>> /\ TagEq(s, tag, Top(@), Fuel) THEN Pop(@) ELSE @,
     !.string_container_stack =
        IF @ # <<>> /\ TagEq(s, tag, Top(@), Fuel) THEN Pop(@) ELSE @,
     !.currentTag = IF Pop(s.tagStack) # <<>> THEN Top(Pop(s.tagStack)) ELSE @]

\* popTag without its `self.currentTag = self.tagStack[-1]`: a faulty variant.
PopTaggedKeepCurrent(s, tag) ==
  [s EXCEPT
     !.tagStack = Pop(@),
     !.open_tag_counter =
        IF s.name[tag] \in DOMAIN @ THEN CounterAdd(@, s.name[tag], 0 - 1)
        ELSE @,
     !.preserve_whitespace_tag_stack =
        IF @ # <<>> /\ TagEq(s, tag, Top(@), Fuel) THEN Pop(@) ELSE @,
     !.string_container_stack =
        IF @ # <<>> /\ TagEq(s, tag, Top(@), Fuel) THEN Pop(@) ELSE @]

\* Bisque.popTag, given tag = self.tagStack.pop(); each statement assigns a
\* field the others do not read.
PopTagged(s, tag) ==
  [s EXCEPT
     !.tagStack = Pop(@),
     !.open_tag_counter =
        IF s.name[tag] \in DOMAIN @ THEN CounterAdd(@, s.name[tag], 0 - 1)
        ELSE @,
     !.preserve_whitespace_tag_stack =
        IF @ # <<>> /\ TagEq(s, tag, Top(@), Fuel) THEN Pop(@) ELSE @,
     !.string_container_stack =
        IF @ # <<>> /\ TagEq(s, tag, Top(@), Fuel) THEN Pop(@) ELSE @,
     !.currentTag = IF Pop(s.tagStack) # <<>> THEN Top(Pop(s.tagStack)) ELSE @]

\* Bisque.popTag.
popTag(s) == PopTagged(s, Top(s.tagStack))

\* pushTag putting the tag first among the children of currentTag instead
\* of appending it: a faulty variant.
PushTagFirst(s, tag) ==
  [s EXCEPT
     !.t.contents =
        IF s.currentTag # Null THEN [@ EXCEPT ![s.currentTag] = <<tag>> \o @]
        ELSE @,
     !.tagStack = Append(@, tag),
     !.currentTag = tag,
     !.open_tag_counter =
        IF s.name[tag] # ROOT_TAG_NAME THEN CounterAdd(@, s.name[tag], 1)
        ELSE @,
     !.preserve_whitespace_tag_stack =
        IF s.name[tag] \in PreserveWhitespaceTags THEN Append(@, tag) ELSE @,
     !.string_container_stack =
        IF s.name[tag] \in DOMAIN StringContainers THEN Append(@, tag) ELSE @]

\* Bisque.pushTag.
pushTag(s, tag) ==
  [s EXCEPT
     !.t.contents =
        IF s.currentTag # Null THEN [@ EXCEPT ![s.currentTag] = Append(@, tag)]
        ELSE @,
     !.tagStack = Append(@, tag),
     !.currentTag = tag,
     !.open_tag_counter =
        IF s.name[tag] # ROOT_TAG_NAME THEN CounterAdd(@, s.name[tag], 1)
        ELSE @,
     !.preserve_whitespace_tag_stack =
        IF s.name[tag] \in PreserveWhitespaceTags THEN Append(@, tag) ELSE @,
     !.string_container_stack =
        IF s.name[tag] \in DOMAIN StringContainers THEN Append(@, tag) ELSE @]

\* _linkage_fixer, its while loop: target is the next_sibling found going up
\* from el (Null when the walk reaches the top without one).
LinkageTarget(t, child, descendant, target) ==
  Run(t, <<
    If(target # Null /\ target # Diverge, "next_element", descendant, target),
    If(target # Null /\ target # Diverge, "previous_element", target,
       child) >>)

\* _linkage_fixer, from `descendant.next_element = None` on.
LinkageEnd(t, el, child, descendant) ==
  LinkageTarget(t, child, descendant, NextSiblingOfAncestor(t, el, Fuel))

\* _linkage_fixer, from `if isinstance(child, Tag) and child.contents` on.
LinkageDescend(t, el, child, descendant) ==
  LinkageEnd(Run(t, <<Do("next_element", descendant, Null),
                      Do("next_sibling", descendant, Null)>>),
             el, child, descendant)

\* _linkage_fixer, after the block `if child is first and el.parent is not
\* None` and `child.next_sibling = None`.
LinkageChild(t, el, child) ==
  LinkageDescend(t, el, child,
                 IF IsTag(child) /\ t.contents[child] # <<>>
                   THEN _last_descendant(t, child, FALSE) ELSE child)

\* _linkage_fixer, given first, child and child.previous_element.
LinkageWith(t, el, relink, child, prev_el) ==
  LinkageChild(
    Run(t, <<
      If(relink, "next_element", el, child),
      If(relink /\ prev_el # Null /\ prev_el # el, "next_element", prev_el,
         Null),
      If(relink, "previous_element", child, el),
      If(relink, "previous_sibling", child, Null),
      Do("next_sibling", child, Null) >>),
    el, child)

\* Bisque._linkage_fixer(el).
_linkage_fixer(t, el) ==
  LinkageWith(t, el,
              PyGet(t.contents[el], 0 - 1) = PyGet(t.contents[el], 0)
                /\ t.parent[el] # Null,
              PyGet(t.contents[el], 0 - 1),
              t.previous_element[PyGet(t.contents[el], 0 - 1)])

\* object_was_parsed, from `parent.contents.append(o)` on.
ObjectAppended(t, parent, o, fix) ==
  IF fix
    THEN _linkage_fixer([t EXCEPT !.contents[parent] = Append(@, o)], parent)
    ELSE [t EXCEPT !.contents[parent] = Append(@, o)]

\* object_was_parsed, from `fix = parent.next_element is not None` on.
ObjectSetup(t, o, parent, previous_element, next_element, previous_sibling, next_sibling) ==
  ObjectAppended(setup(t, o, parent, previous_element, next_element,
                       previous_sibling, next_sibling),
                 parent, o, t.next_element[parent] # Null)

\* object_was_parsed, given parent and previous_element as first chosen.
ObjectParsed(s, o, parent, previous_element) ==
  [s EXCEPT
     !.most_recent_element = o,
     !.t = ObjectSetup(@, o, parent,
                       IF IsTag(o) /\ previous_element = Null
                         THEN @.previous_element[o] ELSE previous_element,
                       IF IsTag(o) THEN @.next_element[o] ELSE Null,
                       IF IsTag(o) THEN @.previous_sibling[o] ELSE Null,
                       IF IsTag(o) THEN @.next_sibling[o] ELSE Null)]

\* Bisque.object_was_parsed(o, parent, most_recent_element); the two optional
\* arguments are Null when not passed.
object_was_parsed(s, o, parent, most_recent_element) ==
  ObjectParsed(s, o,
               IF parent = Null THEN s.currentTag ELSE parent,
               IF most_recent_element # Null THEN most_recent_element
               ELSE s.most_recent_element)

----------------------------------------------------------------------------
(* element/tag_core/soup_strainer.py: filters on tags and strings. A       *)
(* Python value that a filter or an attribute can hold is a record: its    *)
(* kind and, in v, the string or the strings of the list.                  *)

PyNone == [kind |-> "None", v |-> <<>>]
PyTrue == [kind |-> "bool", v |-> <<"True">>]
PyFalse == [kind |-> "bool", v |-> <<"False">>]
Str(x) == [kind |-> "str", v |-> <<x>>]
List(xs) == [kind |-> "list", v |-> xs]

\* bool(value): None, False, "" and [] are false.
Truthy(value) ==
  CASE value.kind = "None" -> FALSE
    [] value.kind = "bool" -> value = PyTrue
    [] value.kind = "str" -> value.v[1] # ""
    [] value.kind = "list" -> value.v # <<>>

RECURSIVE JoinWith(_, _)
\* sep.join(xs)
JoinWith(sep, xs) ==
  IF xs = <<>> THEN ""
  ELSE IF Len(xs) = 1 THEN xs[1]
  ELSE xs[1] \o sep \o JoinWith(sep, Tail(xs))

\* _matches(markup, match_against) for a markup that is one string, from
\* `if match_against is True` on: True matches it, a list matches it when an
\* item of the list does, a string when equal; None and False do not.
MatchesStr(markup, match_against) ==
  CASE match_against = PyTrue -> TRUE
    [] match_against.kind = "list" ->
         \E i \in 1 .. Len(match_against.v) : markup = match_against.v[i]
    [] match_against.kind = "str" -> markup = match_against.v[1]
    [] OTHER -> FALSE

\* _matches trying a multi-valued attribute as a whole only: a faulty
\* variant.
MatchesWholeOnly(markup, match_against) ==
  CASE markup.kind = "list" ->
         MatchesStr(JoinWith(" ", markup.v), match_against)
    [] markup.kind = "None" ->
         match_against # PyTrue /\ ~Truthy(match_against)
    [] OTHER -> MatchesStr(markup.v[1], match_against)

\* BaseSoupStrainer._matches(markup, match_against) for a markup that is
\* None, a string or the list of a multi-valued attribute.
_matches(markup, match_against) ==
  CASE markup.kind = "list" ->
         \/ \E i \in 1 .. Len(markup.v) :
              MatchesStr(markup.v[i], match_against)
         \/ MatchesStr(JoinWith(" ", markup.v), match_against)
    [] markup.kind = "None" ->
         match_against # PyTrue /\ ~Truthy(match_against)
    [] OTHER -> MatchesStr(markup.v[1], match_against)

\* _matches(markup, match_against) for a markup that is a Tag of this name
\* and prefix: the name is tried and then, for a tag with a prefix, the
\* prefixed name.
MatchesTag(nm, nsprefix, match_against) ==
  IF match_against.kind = "list"
    THEN \E i \in 1 .. Len(match_against.v) :
           \/ nm = match_against.v[i]
           \/ /\ Truthy(nsprefix)
              /\ nsprefix.v[1] \o ":" \o nm = match_against.v[i]
    ELSE \/ MatchesStr(nm, match_against)
         \/ /\ Truthy(nsprefix)
            /\ MatchesStr(nsprefix.v[1] \o ":" \o nm, match_against)

\* BaseSoupStrainer.search_tag, whether `found` is set: isTag tells a Tag
\* (markup_name a Tag, its attrs the attribute map) from a prospective name
\* and attributes; `string` is found.string. No filter is a callable or a
\* regular expression.
search_tag(strainer, isTag, nm, nsprefix, markup_attrs, string) ==
  /\ ~(/\ isTag /\ strainer.name.kind = "str"
       /\ ~Truthy(nsprefix) /\ strainer.name.v[1] # nm)
  /\ \/ ~Truthy(strainer.name)
     \/ IF isTag THEN MatchesTag(nm, nsprefix, strainer.name)
        ELSE MatchesStr(nm, strainer.name)
  /\ \A attr \in DOMAIN strainer.attrs :
       _matches(IF attr \in DOMAIN markup_attrs THEN markup_attrs[attr]
                ELSE PyNone,
                strainer.attrs[attr])
  /\ isTag \/ nm # ""
  /\ Truthy(strainer.string) => _matches(string, strainer.string)

\* BaseSoupStrainer.search(markup) for a markup that is a string.
SearchString(strainer, markup) ==
  /\ ~Truthy(strainer.name)
  /\ DOMAIN strainer.attrs = {}
  /\ _matches(Str(markup), strainer.string)
  /\ markup # ""

RECURSIVE TagString(_, _, _)
\* Tag.string: the single string inside this tag, through single child tags.
TagString(s, self, fuel) ==
  IF fuel = 0 \/ Len(s.t.contents[self]) # 1 THEN PyNone
  ELSE IF ~IsTag(s.t.contents[self][1])
    THEN Str(JoinWith("", s.value[s.t.contents[self][1]]))
    ELSE TagString(s, s.t.contents[self][1], fuel - 1)

\* BaseSoupStrainer.search(markup), whether `found` is set, for a Tag or a
\* NavigableString of the document.
search(strainer, s, markup) ==
  IF IsTag(markup)
    THEN /\ \/ ~Truthy(strainer.string)
            \/ Truthy(strainer.name)
            \/ DOMAIN strainer.attrs # {}
         /\ search_tag(strainer, TRUE, s.name[markup], s.prefix[markup],
                       s.attrs[markup], TagString(s, markup, Fuel))
    ELSE SearchString(strainer, JoinWith("", s.value[markup]))

RECURSIVE FindAllNoBreak(_, _, _, _, _, _)
\* The loop of _find_all without its `break`: a faulty variant.
FindAllNoBreak(s, strainer, limit, generator, examined, results) ==
  IF examined = Len(generator.seq)
    THEN [results |-> results, examined |-> examined, res |-> generator.res]
    ELSE LET i == generator.seq[examined + 1]
             found == /\ IsTag(i) \/ s.value[i] # <<>>
                      /\ search(strainer, s, i)
         IN FindAllNoBreak(s, strainer, limit, generator, examined + 1,
                           IF found THEN Append(results, i) ELSE results)

RECURSIVE FindAllLoop(_, _, _, _, _, _)
\* The `while True` loop of _find_all: `examined` items were taken from the
\* generator so far; limit 0 stands for no limit.
FindAllLoop(s, strainer, limit, generator, examined, results) ==
  IF examined = Len(generator.seq)
    THEN [results |-> results, examined |-> examined, res |-> generator.res]
    ELSE LET i == generator.seq[examined + 1]
             found == /\ IsTag(i) \/ s.value[i] # <<>>
                      /\ search(strainer, s, i)
         IN IF found /\ limit # 0 /\ Len(results) + 1 >= limit
              THEN [results |-> Append(results, i), examined |-> examined + 1,
                    res |-> "ok"]
              ELSE FindAllLoop(s, strainer, limit, generator, examined + 1,
                               IF found THEN Append(results, i) ELSE results)

\* The parts a name with one colon is made of in the query runs.
NameParts == {"", "a", "b", "n"}

\* `name.count(":") == 1`, for a name made of the parts above.
HasOneColon(nm) == \E p \in NameParts, l \in NameParts : nm = p \o ":" \o l

\* `prefix, local_name = name.split(":", 1)`, or None and the name.
SplitName(nm) ==
  IF HasOneColon(nm)
    THEN LET pair == CHOOSE pair \in NameParts \X NameParts :
                       nm = pair[1] \o ":" \o pair[2]
         IN [prefix |-> Str(pair[1]), local_name |-> pair[2]]
    ELSE [prefix |-> PyNone, local_name |-> nm]

\* The test of the optimization for a name given as a string, `A and B or
\* C` as Python groups it.  The name of a NavigableString is None, equal to
\* no string.
NamedTagTest(s, element, nm) ==
  \/ IsTag(element) /\ s.name[element] = nm
  \/ /\ IsTag(element) /\ s.name[element] = SplitName(nm).local_name
     /\ \/ SplitName(nm).prefix = PyNone
        \/ s.prefix[element] = SplitName(nm).prefix

\* The two optimizations of _find_all, which filter the whole traversal:
\* every Tag for the name None or True, the tags of a name for a string.
FindAllFast(s, strainer, generator) ==
  LET AnyTag(element) == IsTag(element)
      Named(element) == NamedTagTest(s, element, strainer.name.v[1])
  IN [results |-> IF strainer.name.kind = "str"
                    THEN SelectSeq(generator.seq, Named)
                    ELSE SelectSeq(generator.seq, AnyTag),
      examined |-> Len(generator.seq), res |-> generator.res]

\* BasePageElement._find_all(name, attrs, string, limit, generator) with the
\* strainer made of name, attrs and string: an optimization when only a
\* name is given, which is None, True or a string, the loop otherwise.
_find_all(s, strainer, limit, generator) ==
  IF /\ strainer.string = PyNone /\ limit = 0 /\ DOMAIN strainer.attrs = {}
     /\ strainer.name \in {PyNone, PyTrue} \/ strainer.name.kind = "str"
    THEN FindAllFast(s, strainer, generator)
    ELSE FindAllLoop(s, strainer, limit, generator, 0, <<>>)

\* Tag.find_all(name, attrs, recursive=True, string, limit) with a strainer
\* made of name, attrs and string.
find_all(s, self, strainer, limit) ==
  _find_all(s, strainer, limit, descendants(s.t, self))

\* "".join(self.current_data), as a sequence of characters.
RECURSIVE Join(_)
Join(chunks) == IF chunks = <<>> THEN <<>> ELSE Head(chunks) \o Join(Tail(chunks))

\* The whitespace policy without its test for a newline: a faulty variant.
CollapseToSpace(s, data) ==
  IF s.preserve_whitespace_tag_stack = <<>>
     /\ \A i \in 1 .. Len(data) : data[i] \in ASCII_SPACES
    THEN <<" ">>
    ELSE data

\* The whitespace policy of endData.
Collapse(s, data) ==
  IF s.preserve_whitespace_tag_stack = <<>>
     /\ \A i \in 1 .. Len(data) : data[i] \in ASCII_SPACES
    THEN IF \E i \in 1 .. Len(data) : data[i] = "\n" THEN <<"\n">> ELSE <<" ">>
    ELSE data

\* string_container reading the bottom of the stack, the outermost
\* container: a faulty variant.
StringContainerOutermost(s) ==
  IF s.string_container_stack # <<>>
     /\ s.name[s.string_container_stack[1]] \in DOMAIN StringContainers
    THEN StringContainers[s.name[s.string_container_stack[1]]]
    ELSE "NavigableString"

\* Bisque.string_container(base_class = None), no element_classes override.
string_container(s) ==
  IF s.string_container_stack # <<>>
     /\ s.name[Top(s.string_container_stack)] \in DOMAIN StringContainers
    THEN StringContainers[s.name[Top(s.string_container_stack)]]
    ELSE "NavigableString"

\* A NavigableString / Tag object the parser has not constructed yet.
FreshNodes(s, tag) ==
  {n \in Nodes \ {Root} :
     /\ IsTag(n) = tag
     /\ s.t.parent[n] = Null
     /\ s.cls[n] = "" }
Lowest(S) == CHOOSE n \in S : \A m \in S : n <= m

\* endData, from `containerClass = self.string_container(containerClass)` on:
\* o is the string object it creates.
EndDataWith(s, o, current_data) ==
  object_was_parsed([s EXCEPT !.current_data = <<>>,
                              !.value[o] = current_data,
                              !.cls[o] = string_container(s)],
                    o, Null, Null)

\* endData, from `self.current_data = []` on: at the top level a parse_only
\* strainer drops the string unless it has a string filter that matches.
EndDataKept(s, current_data) ==
  IF /\ s.parse_only # PyNone
     /\ Len(s.tagStack) <= 1
     /\ \/ ~Truthy(s.parse_only.string)
        \/ ~SearchString(s.parse_only, JoinWith("", current_data))
    THEN [s EXCEPT !.current_data = <<>>]
    ELSE EndDataWith(s, Lowest(FreshNodes(s, FALSE)), current_data)

\* Bisque.endData(): a no-op on an empty buffer.
endData(s) ==
  IF s.current_data = <<>> THEN s
  ELSE EndDataKept(s, Collapse(s, Join(s.current_data)))

\* handle_starttag, from the construction of `tag` on.
StartTagNew(s, nm, nsprefix, attrs_, tag) ==
  pushTag([s EXCEPT
             !.name[tag] = nm,
             !.prefix[tag] = nsprefix,
             !.attrs[tag] = attrs_,
             !.cls[tag] = "Tag",
             !.t = Run(setup(@, tag, s.currentTag, s.most_recent_element,
                             Null, Null, Null),
                       <<If(s.most_recent_element # Null, "next_element",
                            s.most_recent_element, tag)>>),
             !.most_recent_element = tag],
          tag)

\* handle_starttag after endData without the parse_only test: a faulty
\* variant.
StartTagUnfiltered(s, nm, nsprefix, attrs_) ==
  StartTagNew(s, nm, nsprefix, attrs_, Lowest(FreshNodes(s, TRUE)))

\* handle_starttag, after `self.endData()`: at the top level a parse_only
\* strainer rejects the tag when it filters strings or search_tag does not
\* find the name and attributes. The attributes are none of the builder's
\* cdata_list_attributes, whose values Tag.__init__ would split.
StartTagAfterData(s, nm, nsprefix, attrs_) ==
  IF /\ s.parse_only # PyNone
     /\ Len(s.tagStack) <= 1
     /\ \/ Truthy(s.parse_only.string)
        \/ ~search_tag(s.parse_only, FALSE, nm, PyNone, attrs_, PyNone)
    THEN s
    ELSE StartTagNew(s, nm, nsprefix, attrs_, Lowest(FreshNodes(s, TRUE)))

\* Bisque.handle_starttag(name, namespace, nsprefix, attrs).
handle_starttag(s, nm, nsprefix, attrs_) ==
  StartTagAfterData(endData(s), nm, nsprefix, attrs_)

RECURSIVE PopLoop(_, _, _, _)
\* _popToTag, one iteration after its popTag: the loop breaks on a match.
PopNext(s, nm, nsprefix, i, match) ==
  IF match THEN s ELSE PopLoop(s, nm, nsprefix, i - 1)

\* The for loop of _popToTag (inclusivePop = True), i from stack_size - 1
\* down to 1.
PopLoop(s, nm, nsprefix, i) ==
  IF i < 1 THEN s
  ELSE IF CounterGet(s.open_tag_counter, nm) = 0 THEN s
  ELSE PopNext(popTag(s), nm, nsprefix, i,
               nm = s.name[s.tagStack[i + 1]]
                 /\ nsprefix = s.prefix[s.tagStack[i + 1]])

\* Bisque._popToTag(name, nsprefix).
_popToTag(s, nm, nsprefix) ==
  IF nm = ROOT_TAG_NAME THEN s
  ELSE PopLoop(s, nm, nsprefix, Len(s.tagStack) - 1)

\* Bisque.handle_endtag(name, nsprefix).
handle_endtag(s, nm, nsprefix) == _popToTag(endData(s), nm, nsprefix)

\* Bisque.handle_data(data).
\* handle_data putting the chunk in front of the buffer: a faulty variant.
HandleDataInFront(s, data) == [s EXCEPT !.current_data = <<data>> \o @]

handle_data(s, data) == [s EXCEPT !.current_data = Append(@, data)]

RECURSIVE PopAll(_, _)
\* while self.currentTag.name != self.ROOT_TAG_NAME: self.popTag()
PopAll(s, fuel) ==
  IF fuel = 0 \/ s.name[s.currentTag] = ROOT_TAG_NAME THEN s
  ELSE PopAll(popTag(s), fuel - 1)

\* The tail of _feed without its `self.endData()`: a faulty variant.
FeedEndUnflushed(s) == PopAll(s, Fuel)

\* The tail of Bisque._feed, after the parser has fed its events.
FeedEnd(s) == PopAll(endData(s), Fuel)

----------------------------------------------------------------------------
(* builder/_html5lib: the adapter through which html5lib's tree            *)
(* construction places nodes under a parent of its choice.                 *)

\* The outcome of an adapter call: the soup it leaves and how it ended.
Built(s, res) == [s |-> s, res |-> res]

\* TreeBuilderForHtml5lib.elementClass: soup.new_tag makes `tag` a
\* free-standing Tag of that name.
elementClass(s, nm, tag) == [s EXCEPT !.name[tag] = nm, !.cls[tag] = "Tag"]

\* Bisque.new_string(data): `o` becomes a free-standing string of the class
\* string_container chooses.
new_string(s, o, data) ==
  [s EXCEPT !.value[o] = data, !.cls[o] = string_container(s)]

\* appendChild, its `else` branch: the object is handed to
\* object_was_parsed after the parent's last descendant, or after the last
\* node of the whole document when the childless parent has been left
\* behind, or after the parent itself.
AppendChildParsed(s, self, child) ==
  Built(object_was_parsed(
          s, child, self,
          IF s.t.contents[self] # <<>> THEN _last_descendant(s.t, self, FALSE)
          ELSE IF s.t.next_element[self] # Null
            THEN _last_descendant(s.t, Root, TRUE)
          ELSE self),
        "ok")

\* appendChild, the branch that appends a string onto a string:
\* new_string(old_element + string_child) and old_element.replace_with(it).
\* string_child is referenced by nothing but its wrapper, so the new string
\* is modelled on that same object.
AppendChildMerged(s, old_element, string_child) ==
  Built([s EXCEPT
           !.value[string_child] = s.value[old_element] \o @,
           !.t = replace_with(@, old_element, <<string_child>>).t,
           !.most_recent_element = string_child],
        replace_with(s.t, old_element, <<string_child>>).res)

\* appendChild, from `if string_child is not None and ...` on.
AppendChildPlace(s, self, child) ==
  IF /\ s.cls[child] = "NavigableString"
     /\ s.t.contents[self] # <<>>
     /\ s.cls[PyGet(s.t.contents[self], 0 - 1)] = "NavigableString"
    THEN AppendChildMerged(s, PyGet(s.t.contents[self], 0 - 1), child)
    ELSE AppendChildParsed(s, self, child)

\* appendChild, given the outcome r of the extract of a child that had a
\* parent.
AppendChildExtracted(s, self, child, r) ==
  IF r.res # "ok" THEN Built([s EXCEPT !.t = r.t], r.res)
  ELSE AppendChildPlace([s EXCEPT !.t = r.t], self, child)

\* Element.appendChild(node), node the wrapper of a Tag or of a string:
\* `self` and `node` stand for the wrapped objects.
appendChild(s, self, node) ==
  IF IsTag(node) /\ s.t.parent[node] # Null
    THEN AppendChildExtracted(s, self, node, extract(s.t, node, Null))
    ELSE AppendChildPlace(s, self, node)

\* Element.insertText(data) with no insertBefore: `o` is the string that
\* new_string creates.
insertText(s, self, data, o) == appendChild(new_string(s, o, data), self, o)

\* reparentChildren after its lookups: descendant and last_child are the
\* new parent's last descendant and last child (None without children),
\* after is what followed the new parent's subtree, moved_last the last
\* descendant of the last child moved. The statements read nothing that an
\* earlier one assigned.
ReparentChildrenWith(t, element, new_parent, descendant, last_child, after, moved_last) ==
  LET to_append == t.contents[element]
      before == IF descendant # Null THEN descendant ELSE new_parent
      linked ==
        IF to_append = <<>> THEN t
        ELSE Run(t, <<
               Do("previous_element", to_append[1], before),
               Do("previous_sibling", to_append[1], last_child),
               Do("next_element", before, to_append[1]),
               If(last_child # Null, "next_sibling", last_child, to_append[1]),
               Do("next_element", moved_last, after),
               If(after # Null, "previous_element", after, moved_last),
               Do("next_sibling", moved_last, Null) >>)
      moved ==
        [linked EXCEPT
           !.parent = [n \in Nodes |->
                         IF n \in {to_append[i] : i \in 1 .. Len(to_append)}
                           THEN new_parent ELSE @[n]],
           !.contents[new_parent] = @ \o to_append]
  IN Ok(Run([moved EXCEPT !.contents[element] = <<>>],
            <<Do("next_element", element, t.next_sibling[element])>>))

\* Element.reparentChildren(new_parent): `element` and `new_parent` stand
\* for the wrapped tags.
reparentChildren(t, element, new_parent) ==
  LET walked == LastChildWalk(t, new_parent, Fuel)
      descendant == IF walked = new_parent THEN Null ELSE walked
      moved_last ==
        IF t.contents[element] = <<>> THEN Null
        ELSE LastChildWalk(t, PyGet(t.contents[element], 0 - 1), Fuel)
  IN IF walked = Diverge \/ moved_last = Diverge THEN Raise(t, "hang")
     ELSE IF t.contents[new_parent] # <<>>
       THEN ReparentChildrenWith(t, element, new_parent, descendant,
                                 PyGet(t.contents[new_parent], 0 - 1),
                                 t.next_element[descendant], moved_last)
       ELSE ReparentChildrenWith(t, element, new_parent, descendant, Null,
                                 t.next_element[new_parent], moved_last)

----------------------------------------------------------------------------
(* tag.py: Tag.smooth, which works on the strings' values and classes.     *)

\* PreformattedString and its subclasses.
PreformattedStrings ==
  {"PreformattedString", "CData", "ProcessingInstruction",
   "XMLProcessingInstruction", "Comment", "Declaration", "Doctype"}

\* The first loop's test on the children at i and i + 1 (counted from 1):
\* both are strings and neither is preformatted.
Consolidates(s, self, i) ==
  LET a == s.t.contents[self][i]
      b == s.t.contents[self][i + 1]
  IN /\ ~IsTag(a) /\ ~IsTag(b)
     /\ s.cls[a] \notin PreformattedStrings
     /\ s.cls[b] \notin PreformattedStrings

RECURSIVE MarkedReversed(_, _, _)
\* reversed(marked): the marked positions from i down.
MarkedReversed(s, self, i) ==
  IF i < 1 THEN <<>>
  ELSE (IF Consolidates(s, self, i) THEN <<i>> ELSE <<>>)
       \o MarkedReversed(s, self, i - 1)

\* n = NavigableString(b + a): a faulty variant of the consolidation, which
\* joins the two texts the wrong way round.
ConsolidatedSwapped(s, a, b) ==
  [s EXCEPT !.value[b] = s.value[b] \o s.value[a],
            !.cls[b] = "NavigableString"]

\* n = NavigableString(a + b). After b.extract() every link of b is None as
\* it is for a new object, and nothing of the tree refers to b, so the new
\* string is modelled on that same object.
Consolidated(s, a, b) ==
  [s EXCEPT !.value[b] = s.value[a] \o s.value[b],
            !.cls[b] = "NavigableString"]

\* The body of the second loop after b.extract() ended as r:
\* n = NavigableString(a + b); a.replace_with(n).
ConsolidateExtracted(s, a, b, r) ==
  IF r.res # "ok" THEN Built([s EXCEPT !.t = r.t], r.res)
  ELSE Built([Consolidated(s, a, b) EXCEPT
                !.t = replace_with(r.t, a, <<b>>).t],
             replace_with(r.t, a, <<b>>).res)

RECURSIVE ConsolidateLoop(_, _, _)
\* for i in reversed(marked): r is the outcome so far.
ConsolidateLoop(r, self, marked) ==
  IF r.res # "ok" \/ marked = <<>> THEN r
  ELSE ConsolidateLoop(
         ConsolidateExtracted(
           r.s, r.s.t.contents[self][Head(marked)],
           r.s.t.contents[self][Head(marked) + 1],
           extract(r.s.t, r.s.t.contents[self][Head(marked) + 1], Null)),
         self, Tail(marked))

RECURSIVE smooth(_, _, _)
RECURSIVE SmoothChildren(_, _, _, _)
\* The first loop of smooth from child i on, as far as it calls a.smooth()
\* on the children that are tags.
SmoothChildren(r, self, i, fuel) ==
  IF r.res # "ok" \/ i > Len(r.s.t.contents[self]) THEN r
  ELSE SmoothChildren(
         IF IsTag(r.s.t.contents[self][i])
           THEN smooth(r.s, r.s.t.contents[self][i], fuel - 1)
           ELSE r,
         self, i + 1, fuel)

\* Tag.smooth(); `fuel` bounds the depth of the recursion. A child's smooth()
\* changes child lists inside that child's subtree only, so the positions
\* the first loop marks are those of the list it started with.
smooth(s, self, fuel) ==
  IF fuel = 0 THEN Built(s, "hang")
  ELSE ConsolidateLoop(
         SmoothChildren(Built(s, "ok"), self, 1, fuel), self,
         MarkedReversed(s, self, Len(s.t.contents[self]) - 1))

----------------------------------------------------------------------------
(* The state machine: a document is parsed from a feed of events, then     *)
(* mutated through the public mutators.                                    *)

VARIABLES
  parent, next_element, previous_element, next_sibling, previous_sibling,
  contents,                     \* the navigational fields and child lists
  decomposed,                   \* the decomposed flag of every object
  name, value, cls,             \* Tag.name, NavigableString.value, class
  prefix, attrs,                \* Tag.prefix, Tag.attrs
  parse_only,                   \* Bisque.parse_only: a strainer or none
  tagStack, currentTag, most_recent_element, current_data, open_tag_counter,
  preserve_whitespace_tag_stack, string_container_stack,  \* parse state
  phase,                        \* "feeding", "built", "decomposed", "hung",
                                \* and "preparing", "raised" in __init__,
                                \* "registering" for the builder registry
  construction,                 \* the strategy loop of Bisque.__init__
  vocab,                        \* the tag names and data chunks of the markup
  calls,                        \* the number of mutator calls made so far
  last                          \* the call made last and how it ended

treeVars == <<parent, next_element, previous_element, next_sibling,
              previous_sibling, contents, decomposed>>
parseVars == <<name, value, cls, prefix, attrs, tagStack, currentTag,
               most_recent_element,
               current_data, open_tag_counter, preserve_whitespace_tag_stack,
               string_container_stack>>
given == <<vocab, parse_only, construction>>
vars == <<treeVars, parseVars, phase, given, calls, last>>

Tree ==
  [parent |-> parent, next_element |-> next_element,
   previous_element |-> previous_element, next_sibling |-> next_sibling,
   previous_sibling |-> previous_sibling, contents |-> contents,
   decomposed |-> decomposed]

Soup ==
  [t |-> Tree, name |-> name, value |-> value, cls |-> cls,
   prefix |-> prefix, attrs |-> attrs, parse_only |-> parse_only,
   tagStack |-> tagStack, currentTag |-> currentTag,
   most_recent_element |-> most_recent_element, current_data |-> current_data,
   open_tag_counter |-> open_tag_counter,
   preserve_whitespace_tag_stack |-> preserve_whitespace_tag_stack,
   string_container_stack |-> string_container_stack]

SetTree(t) ==
  /\ parent' = t.parent
  /\ next_element' = t.next_element
  /\ previous_element' = t.previous_element
  /\ next_sibling' = t.next_sibling
  /\ previous_sibling' = t.previous_sibling
  /\ contents' = t.contents
  /\ decomposed' = t.decomposed

SetSoup(s) ==
  /\ SetTree(s.t)
  /\ name' = s.name
  /\ value' = s.value
  /\ cls' = s.cls
  /\ prefix' = s.prefix
  /\ attrs' = s.attrs
  /\ tagStack' = s.tagStack
  /\ currentTag' = s.currentTag
  /\ most_recent_element' = s.most_recent_element
  /\ current_data' = s.current_data
  /\ open_tag_counter' = s.open_tag_counter
  /\ preserve_whitespace_tag_stack' = s.preserve_whitespace_tag_stack
  /\ string_container_stack' = s.string_container_stack

Call(op, self, res) == [op |-> op, self |-> self, res |-> res]

\* Tag.__init__ / NavigableString.__init__ of a free-standing object, and
\* Bisque.reset(): every field None, no children, the document pushed.
InitAt(v, ph, c) ==
  /\ parent = [n \in Nodes |-> Null]
  /\ next_element = [n \in Nodes |-> Null]
  /\ previous_element = [n \in Nodes |-> Null]
  /\ next_sibling = [n \in Nodes |-> Null]
  /\ previous_sibling = [n \in Nodes |-> Null]
  /\ contents = [n \in Nodes |-> <<>>]
  /\ decomposed = [n \in Nodes |-> FALSE]
  /\ name = [n \in Nodes |-> IF n = Root THEN ROOT_TAG_NAME ELSE ""]
  /\ value = [n \in Nodes |-> <<>>]
  /\ cls = [n \in Nodes |-> IF n = Root THEN "Bisque" ELSE ""]
  /\ prefix = [n \in Nodes |-> PyNone]
  /\ attrs = [n \in Nodes |-> <<>>]
  /\ parse_only \in v.strainers
  /\ tagStack = <<Root>>
  /\ currentTag = Root
  /\ most_recent_element = Null
  /\ current_data = <<>>
  /\ open_tag_counter = <<>>
  /\ preserve_whitespace_tag_stack = <<>>
  /\ string_container_stack = <<>>
  /\ phase = ph
  /\ construction = c
  /\ vocab = v
  /\ calls = 0
  /\ last = Call("reset", Null, "ok")

\* The loop of Bisque.__init__ over builder.prepare_markup(...): `prepared`
\* strategies, `tried` of them so far, the rejections collected, and the
\* message of the error __init__ raised, if it did; `markup` is the markup
\* handed in, as a sequence of pieces of text; `builders` and
\* `builders_for_feature` are the registry the builder is looked up in.
Constructing(prepared, tried) ==
  [prepared |-> prepared, tried |-> tried, rejections |-> <<>>, raised |-> <<>>,
   markup |-> <<>>, builders |-> <<>>, builders_for_feature |-> <<>>]

\* The first and only strategy has been reset() and is about to be fed.
InitWith(v) == InitAt(v, "feeding", Constructing(1, 1))

\* The markup of the mutation runs: one tag name, one data chunk.
Init ==
  InitWith([names |-> {"a"}, chunks |-> {<<"x">>}, maxChunks |-> 1,
            prefixes |-> {PyNone}, attrs |-> {<<>>}, strainers |-> {PyNone}])

----------------------------------------------------------------------------
(* Parser events.                                                          *)

PendingTextFits(s) == s.current_data = <<>> \/ FreshNodes(s, FALSE) # {}

HandleStartTag(nm, nsprefix, attrs_) ==
  /\ phase = "feeding"
  /\ PendingTextFits(Soup)
  /\ FreshNodes(endData(Soup), TRUE) # {}
  /\ SetSoup(handle_starttag(Soup, nm, nsprefix, attrs_))
  /\ last' = Call("handle_starttag", Null, "ok")
  /\ UNCHANGED <<phase, given, calls>>

HandleData(data) ==
  /\ phase = "feeding"
  /\ Len(current_data) < vocab.maxChunks
  /\ FreshNodes(Soup, FALSE) # {}
  /\ SetSoup(handle_data(Soup, data))
  /\ last' = Call("handle_data", Null, "ok")
  /\ UNCHANGED <<phase, given, calls>>

HandleEndTag(nm, nsprefix) ==
  /\ phase = "feeding"
  /\ PendingTextFits(Soup)
  /\ SetSoup(handle_endtag(Soup, nm, nsprefix))
  /\ last' = Call("handle_endtag", Null, "ok")
  /\ UNCHANGED <<phase, given, calls>>

Feed_End ==
  /\ phase = "feeding"
  /\ PendingTextFits(Soup)
  /\ SetSoup(FeedEnd(Soup))
  /\ phase' = "built"
  /\ last' = Call("_feed", Null, "ok")
  /\ UNCHANGED <<given, calls>>

----------------------------------------------------------------------------
(* The public mutators, called on the built document.                      *)

\* A free-standing object nothing has touched yet (what new_tag or
\* new_string would return).
Untouched(n) ==
  /\ n # Root
  /\ cls[n] = ""
  /\ ~decomposed[n]
  /\ parent[n] = Null /\ contents[n] = <<>>
  /\ next_element[n] = Null /\ previous_element[n] = Null
  /\ next_sibling[n] = Null /\ previous_sibling[n] = Null
  /\ \A m \in Nodes : \A i \in 1 .. Len(contents[m]) : contents[m][i] # n

\* The objects a call may name: untouched objects of one kind are
\* interchangeable, so only the lowest-numbered of them is named.
Objects ==
  {n \in Nodes :
     Untouched(n) =>
       \A m \in Nodes : (Untouched(m) /\ IsTag(m) = IsTag(n)) => n <= m}

\* The outcome r of a call: the tree it left, and no further call once a
\* call never returned.
Finish(op, self, r) ==
  /\ phase = "built"
  /\ calls < MaxCalls
  /\ calls' = calls + 1
  /\ SetTree(r.t)
  /\ phase' = IF r.res = "hang" THEN "hung" ELSE phase
  /\ last' = Call(op, self, r.res)
  /\ UNCHANGED <<parseVars, given>>

\* The *args tuples of up to k objects.
ArgTuples(k) == UNION {[1 .. j -> Objects] : j \in 1 .. k}

\* Positions handed to insert: one below 0 to one past the end.
Positions(self) == (0 - 1) .. (Len(contents[self]) + 1)

Insert(self, position, new_child) ==
  /\ IsTag(self)
  /\ Finish("insert", self, insert(Tree, self, position, new_child))

Append_(self, tag) ==
  /\ IsTag(self)
  /\ Finish("append", self, append(Tree, self, tag))

Extract(self) ==
  Finish("extract", self, extract(Tree, self, Null))

ReplaceWith(self, args) ==
  Finish("replace_with", self, replace_with(Tree, self, args))

Unwrap(self) ==
  Finish("unwrap", self, unwrap(Tree, self))

Wrap(self, wrap_inside) ==
  /\ IsTag(wrap_inside)
  /\ Finish("wrap", self, wrap(Tree, self, wrap_inside))

\* decompose() of an element; the behaviour of a decomposed element is
\* undefined (tag.py:349), so from then on the only call made is a repeated
\* decompose() of an element already decomposed.
Decompose(self) ==
  /\ IsTag(self)
  /\ self # Root
  /\ phase \in {"built", "decomposed"}
  /\ phase = "decomposed" => decomposed[self]
  /\ calls < MaxCalls
  /\ calls' = calls + 1
  /\ SetTree(decompose(Tree, self).t)
  /\ phase' = IF decompose(Tree, self).res = "hang" THEN "hung"
               ELSE "decomposed"
  /\ last' = Call("decompose", self, decompose(Tree, self).res)
  /\ UNCHANGED <<parseVars, given>>

InsertBefore(self, args) ==
  Finish("insert_before", self, insert_before(Tree, self, args))

InsertAfter(self, args) ==
  Finish("insert_after", self, insert_after(Tree, self, args))

Smooth(self) ==
  /\ phase = "built"
  /\ calls < MaxCalls
  /\ IsTag(self) /\ (self = Root \/ cls[self] # "")
  /\ calls' = calls + 1
  /\ SetSoup(smooth(Soup, self, Fuel).s)
  /\ phase' = IF smooth(Soup, self, Fuel).res = "hang" THEN "hung" ELSE phase
  /\ last' = Call("smooth", self, smooth(Soup, self, Fuel).res)
  /\ UNCHANGED given

Next ==
  \/ \E nm \in vocab.names, nsprefix \in vocab.prefixes,
        attrs_ \in vocab.attrs : HandleStartTag(nm, nsprefix, attrs_)
  \/ \E data \in vocab.chunks : HandleData(data)
  \/ \E nm \in vocab.names, nsprefix \in vocab.prefixes :
        HandleEndTag(nm, nsprefix)
  \/ Feed_End
  \/ \E self \in Objects, new_child \in Objects \cup {Null} :
       \E position \in Positions(self) : Insert(self, position, new_child)
  \/ \E self \in Objects, tag \in Objects : Append_(self, tag)
  \/ \E self \in Objects : Extract(self)
  \/ \E self \in Objects, args \in ArgTuples(1) : ReplaceWith(self, args)
  \/ \E self \in Objects : Unwrap(self)
  \/ \E self \in Objects, wrap_inside \in Objects : Wrap(self, wrap_inside)
  \/ \E self \in Objects, args \in ArgTuples(1) : InsertBefore(self, args)
  \/ \E self \in Objects, args \in ArgTuples(1) : InsertAfter(self, args)
  \/ \E self \in Objects : Decompose(self)

Spec == Init /\ [][Next]_vars

----------------------------------------------------------------------------
(* The shape of a tree, read off the contents lists.                       *)

RECURSIVE Subtree(_, _, _)
RECURSIVE SubtreeAll(_, _, _)
\* The recursive pre-order walk of n's subtree, n first; `fuel` bounds the
\* depth, which cuts the walk of a cyclic structure short.
Subtree(t, n, fuel) ==
  <<n>> \o (IF fuel = 0 THEN <<>> ELSE SubtreeAll(t, t.contents[n], fuel - 1))
SubtreeAll(t, nodes, fuel) ==
  IF nodes = <<>> THEN <<>>
  ELSE Subtree(t, Head(nodes), fuel) \o SubtreeAll(t, Tail(nodes), fuel)

\* The nodes below n, in pre-order.
Below(t, n) == SubtreeAll(t, t.contents[n], Fuel)

Range(seq) == {seq[i] : i \in 1 .. Len(seq)}
NoRepeat(seq) == \A i, j \in 1 .. Len(seq) : seq[i] = seq[j] => i = j

RECURSIVE AncestorsUpTo(_, _, _)
\* n's parent, grandparent, ... as far as `fuel` steps up.
AncestorsUpTo(t, n, fuel) ==
  IF fuel = 0 \/ t.parent[n] = Null THEN {}
  ELSE {t.parent[n]} \cup AncestorsUpTo(t, t.parent[n], fuel - 1)
Ancestors(t, n) == AncestorsUpTo(t, n, Fuel)

\* The document has been built and the last call on it returned.
Settled == phase = "built"

\* I5: the parent relation is acyclic and no node is inside its own subtree.
Acyclic(t) ==
  \A n \in Nodes : n \notin Ancestors(t, n) /\ n \notin Range(Below(t, n))

\* P1: next_element from the first node below the root is the pre-order of
\* the tree below the root, then null.
ChainIsPreOrder(t) ==
  /\ NoRepeat(Below(t, Root))
  /\ \A i \in 1 .. Len(Below(t, Root)) :
       t.next_element[Below(t, Root)[i]] =
         IF i < Len(Below(t, Root)) THEN Below(t, Root)[i + 1] ELSE Null

\* previous_element is the exact inverse of next_element on the nodes S.
ExactInverse(t, S) ==
  \A x, y \in S : (t.next_element[x] = y) <=> (t.previous_element[y] = x)

\* I4: sibling consistency of E's contents.
SiblingsConsistent(t, E) ==
  \A i \in 1 .. Len(t.contents[E]) :
    /\ t.previous_sibling[t.contents[E][i]] =
         IF i = 1 THEN Null ELSE t.contents[E][i - 1]
    /\ t.next_sibling[t.contents[E][i]] =
         IF i = Len(t.contents[E]) THEN Null ELSE t.contents[E][i + 1]

\* The number of times n occurs in E's contents.
Occurrences(t, E, n) ==
  Cardinality({i \in 1 .. Len(t.contents[E]) : t.contents[E][i] = n})

\* I1: a node with a parent occurs once in its contents and nowhere else.
SingleParent(t) ==
  \A n \in Nodes :
    t.parent[n] # Null =>
      \A E \in Nodes : Occurrences(t, E, n) = IF E = t.parent[n] THEN 1 ELSE 0

\* P3 for one element: descendants yields the pre-order of its subtree.
DescendantsExact(t, E) ==
  /\ descendants(t, E).res = "ok"
  /\ descendants(t, E).seq = Below(t, E)
  /\ NoRepeat(Below(t, E))

\* n is attached: it has a parent and is listed among its children.
Attached(t, n) == t.parent[n] # Null /\ index(t, t.parent[n], n) # Null

\* The last node of n's subtree in pre-order (n itself when childless).
LastOf(t, n) == Subtree(t, n, Fuel)[Len(Subtree(t, n, Fuel))]

\* The elements of seq that are not in S, in their order.
Without(seq, S) == SelectSeq(seq, LAMBDA x : x \notin S)

\* I1 and I5: the structure is a forest, the document and detached pieces.
IsForest(t) == Acyclic(t) /\ SingleParent(t)

\* The document root and the nodes below it.
DocumentNodes(t) == {Root} \cup Range(Below(t, Root))

\* The outcomes that are a raised exception.
Raised == {"ValueError", "IndexError", "AttributeError", "NotImplementedError"}

\* I1-I5 together.
WellFormed(t) ==
  /\ IsForest(t)
  /\ \A E \in Nodes : SiblingsConsistent(t, E)
  /\ ChainIsPreOrder(t)
  /\ ExactInverse(t, DocumentNodes(t))

\* P2 for node n: extract(n) then insert(p, i, n) gives back every
\* next_element, previous_element and contents.
RoundTrip(t, n) ==
  LET p == t.parent[n]
      i == index(t, t.parent[n], n)
      back == InsertAfterExtract(extract(t, n, Null), p, i, n)
  IN /\ back.res = "ok"
     /\ back.t.next_element = t.next_element
     /\ back.t.previous_element = t.previous_element
     /\ back.t.contents = t.contents

\* The effect and frame of extract(n), r being its outcome on tree t.
ExtractEffect(t, n, r) ==
  LET inside == Range(Subtree(t, n, Fuel))
      before == t.previous_element[n]
      after == t.next_element[LastOf(t, n)]
  IN /\ r.res = "ok"
     /\ r.t.parent[n] = Null
     /\ r.t.previous_sibling[n] = Null
     /\ r.t.next_sibling[n] = Null
     /\ r.t.previous_element[n] = Null
     /\ r.t.next_element[LastOf(t, n)] = Null
     /\ \A x \in inside :
          /\ r.t.contents[x] = t.contents[x]
          /\ \A y \in inside :
               /\ (r.t.parent[x] = y) <=> (t.parent[x] = y)
               /\ (r.t.next_sibling[x] = y) <=> (t.next_sibling[x] = y)
               /\ (r.t.previous_sibling[x] = y) <=> (t.previous_sibling[x] = y)
               /\ (r.t.next_element[x] = y) <=> (t.next_element[x] = y)
               /\ (r.t.previous_element[x] = y)
                    <=> (t.previous_element[x] = y)
     /\ before # Null => r.t.next_element[before] = after
     /\ after # Null => r.t.previous_element[after] = before

\* args are replacements replace_with accepts: distinct elements, none of
\* them node, the document or an ancestor of node.
Replacements(t, node, args) ==
  /\ NoRepeat(args)
  /\ \A j \in 1 .. Len(args) :
       args[j] \notin {Null, Root, node} \cup Ancestors(t, node)

\* The effect of replace_with(node, *args), r being its outcome on tree t:
\* the replacements follow the children that preceded node and are not
\* among them, and the other children keep their order.
ReplaceEffect(t, node, args, r) ==
  LET p == t.parent[node]
      i == index(t, t.parent[node], node)
      kept == Without(t.contents[t.parent[node]], Range(args) \cup {node})
      lead == Without(SubSeq(t.contents[t.parent[node]], 1, i), Range(args))
  IN /\ r.res = "ok"
     /\ Without(r.t.contents[p], Range(args)) = kept
     /\ Len(r.t.contents[p]) = Len(kept) + Len(args)
     /\ \A j \in 1 .. Len(args) : r.t.contents[p][Len(lead) + j] = args[j]

\* The effect of unwrap(node), r being its outcome on tree t.
UnwrapEffect(t, node, r) ==
  LET p == t.parent[node]
      i == index(t, t.parent[node], node)
      children == t.contents[node]
  IN /\ r.res = "ok"
     /\ r.t.parent[node] = Null
     /\ r.t.contents[node] = <<>>
     /\ r.t.contents[p] = SubSeq(t.contents[p], 1, i) \o children
                            \o SubSeq(t.contents[p], i + 2, Len(t.contents[p]))
     /\ \A j \in 1 .. Len(children) : r.t.parent[children[j]] = p

----------------------------------------------------------------------------
(* The feed alone: start-tag, text and end-tag events over two tag names   *)
(* and text that is or is not whitespace, up to the end of the document.   *)

\* The markups fed: tags with and without a prefix; whitespace in and out
\* of a whitespace-preserving tag; string-container tags; attributes and a
\* parse_only strainer on a name, on an attribute or on strings.
FeedVocabs ==
  {[names |-> {"a", "b"}, chunks |-> {<<"x">>, <<" ">>}, maxChunks |-> 2,
    prefixes |-> {PyNone, Str("n")}, attrs |-> {<<>>},
    strainers |-> {PyNone}],
   [names |-> {"a", "pre"}, chunks |-> {<<"x">>, <<" ">>, <<"\n">>},
    maxChunks |-> 2,
    prefixes |-> {PyNone}, attrs |-> {<<>>}, strainers |-> {PyNone}],
   [names |-> {"a", "script", "style"}, chunks |-> {<<"x">>},
    maxChunks |-> 1,
    prefixes |-> {PyNone}, attrs |-> {<<>>}, strainers |-> {PyNone}],
   [names |-> {"a", "b"}, chunks |-> {<<"x">>, <<"y">>}, maxChunks |-> 1,
    prefixes |-> {PyNone}, attrs |-> {<<>>, [id |-> Str("i")]},
    strainers |-> {[name |-> Str("a"), attrs |-> <<>>, string |-> PyNone],
                   [name |-> PyNone, attrs |-> [id |-> Str("i")],
                    string |-> PyNone],
                   [name |-> PyNone, attrs |-> <<>>, string |-> Str("x")]}]}

InitFeed == \E v \in FeedVocabs : InitWith(v)

NextFeed ==
  \/ \E nm \in vocab.names, nsprefix \in vocab.prefixes,
        attrs_ \in vocab.attrs : HandleStartTag(nm, nsprefix, attrs_)
  \/ \E data \in vocab.chunks : HandleData(data)
  \/ \E nm \in vocab.names, nsprefix \in vocab.prefixes :
        HandleEndTag(nm, nsprefix)
  \/ Feed_End

SpecFeed == InitFeed /\ [][NextFeed]_vars

\* The markup of the smoothing runs: one tag name, two different chunks.
InitSmooth ==
  InitWith([names |-> {"a"}, chunks |-> {<<"x">>, <<"y">>}, maxChunks |-> 1,
            prefixes |-> {PyNone}, attrs |-> {<<>>}, strainers |-> {PyNone}])

\* A document is parsed, strings are moved next to each other, and an
\* element is smoothed.
NextSmooth ==
  \/ NextFeed
  \/ \E self \in Objects, tag \in Objects : Append_(self, tag)
  \/ \E self \in Objects, args \in ArgTuples(1) : InsertBefore(self, args)
  \/ \E self \in Nodes : Smooth(self)

SpecSmooth == InitSmooth /\ [][NextSmooth]_vars

----------------------------------------------------------------------------
(* Tree construction by html5lib: elements are created free-standing and   *)
(* then appended, or moved, under any element built so far.                *)

\* The objects that exist: the document and what has been constructed.
Constructed(n) == cls[n] # ""

ElementClass(nm) ==
  /\ phase = "feeding"
  /\ FreshNodes(Soup, TRUE) # {}
  /\ SetSoup(elementClass(Soup, nm, Lowest(FreshNodes(Soup, TRUE))))
  /\ last' = Call("elementClass", Lowest(FreshNodes(Soup, TRUE)), "ok")
  /\ UNCHANGED <<phase, given, calls>>

\* html5lib appends an element under another, never under itself or one of
\* its own descendants.
AppendChild(self, node) ==
  /\ phase = "feeding"
  /\ IsTag(self) /\ Constructed(self)
  /\ IsTag(node) /\ Constructed(node) /\ node # Root
  /\ node # self /\ node \notin Ancestors(Tree, self)
  /\ SetSoup(appendChild(Soup, self, node).s)
  /\ last' = Call("appendChild", self, appendChild(Soup, self, node).res)
  /\ UNCHANGED <<phase, given, calls>>

InsertText(self, data) ==
  /\ phase = "feeding"
  /\ IsTag(self) /\ Constructed(self)
  /\ FreshNodes(Soup, FALSE) # {}
  /\ SetSoup(insertText(Soup, self, data, Lowest(FreshNodes(Soup, FALSE))).s)
  /\ last' = Call("insertText", self,
                  insertText(Soup, self, data,
                             Lowest(FreshNodes(Soup, FALSE))).res)
  /\ UNCHANGED <<phase, given, calls>>

\* Most calls of reparentChildren in one tree construction.
MaxMoves == 1

\* html5lib moves the children of an element into another element, which
\* is not the element itself nor inside it.
ReparentChildren(self, new_parent) ==
  /\ phase = "feeding"
  /\ calls < MaxMoves
  /\ calls' = calls + 1
  /\ IsTag(self) /\ Constructed(self) /\ self # Root
  /\ IsTag(new_parent) /\ Constructed(new_parent)
  /\ new_parent # self /\ self \notin Ancestors(Tree, new_parent)
  /\ SetSoup([Soup EXCEPT !.t = reparentChildren(Tree, self, new_parent).t])
  /\ last' = Call("reparentChildren", self,
                  reparentChildren(Tree, self, new_parent).res)
  /\ UNCHANGED <<phase, given>>

NextTreeBuilder ==
  \/ \E nm \in vocab.names : ElementClass(nm)
  \/ \E self \in Nodes, node \in Nodes : AppendChild(self, node)
  \/ \E self \in Nodes, data \in vocab.chunks : InsertText(self, data)
  \/ \E self \in Nodes, new_parent \in Nodes :
       ReparentChildren(self, new_parent)

SpecTreeBuilder == Init /\ [][NextTreeBuilder]_vars

----------------------------------------------------------------------------------------------------------------------------------------
(* Bisque.__init__: the loop over the prepared markup strategies.          *)

\* Most strategies prepare_markup yields, and what a rejecting parser says.
MaxPrepared == 3
Causes == {"e1", "e2"}

\* reset() without `self.most_recent_element = None`: a faulty variant.
ResetKeepsMostRecent(s) ==
  [s EXCEPT
     !.t.parent[Root] = Null, !.t.next_element[Root] = Null,
     !.t.previous_element[Root] = Null, !.t.next_sibling[Root] = Null,
     !.t.previous_sibling[Root] = Null, !.t.contents[Root] = <<>>,
     !.t.decomposed[Root] = FALSE,
     !.name[Root] = ROOT_TAG_NAME, !.prefix[Root] = PyNone,
     !.attrs[Root] = <<>>,
     !.current_data = <<>>, !.currentTag = Root, !.tagStack = <<Root>>,
     !.open_tag_counter = <<>>, !.preserve_whitespace_tag_stack = <<>>,
     !.string_container_stack = <<>>]

\* Bisque.reset(): the fields of the document are set to those of a new Tag
\* named ROOT_TAG_NAME and the parse state is emptied, then pushTag(self)
\* puts the document on the stack. The objects of an abandoned attempt are
\* not touched: they keep their fields and are no longer reachable from
\* the document.
reset(s) ==
  [s EXCEPT
     !.t.parent[Root] = Null, !.t.next_element[Root] = Null,
     !.t.previous_element[Root] = Null, !.t.next_sibling[Root] = Null,
     !.t.previous_sibling[Root] = Null, !.t.contents[Root] = <<>>,
     !.t.decomposed[Root] = FALSE,
     !.name[Root] = ROOT_TAG_NAME, !.prefix[Root] = PyNone,
     !.attrs[Root] = <<>>,
     !.current_data = <<>>, !.currentTag = Root, !.tagStack = <<Root>>,
     !.open_tag_counter = <<>>, !.preserve_whitespace_tag_stack = <<>>,
     !.string_container_stack = <<>>, !.most_recent_element = Null]

\* The loop forgetting the earlier rejections: a faulty variant.
RejectKeepsLast(c, e) == [c EXCEPT !.rejections = <<e>>]

\* except ParserRejectedMarkup as e: rejections.append(e).
Reject(c, e) == [c EXCEPT !.rejections = Append(@, e)]

\* The message of the ParserRejectedMarkup that __init__ raises.
Aggregated(rejections) ==
  "The markup you provided was rejected by the parser. "
  \o "Trying a different parser or a different encoding may help.\n\n"
  \o "Original exception(s) from parser:\n "
  \o JoinWith("\n ", rejections)

\* for prepared in self.builder.prepare_markup(...): self.reset().
NextPrepared ==
  /\ phase = "preparing"
  /\ construction.tried < construction.prepared
  /\ construction' = [construction EXCEPT !.tried = @ + 1]
  /\ SetSoup(reset(Soup))
  /\ phase' = "feeding"
  /\ last' = Call("reset", Null, "ok")
  /\ UNCHANGED <<vocab, parse_only, calls>>

\* self._feed() raises ParserRejectedMarkup, at any point of the feed.
Rejected(e) ==
  /\ phase = "feeding"
  /\ construction' = Reject(construction, e)
  /\ phase' = "preparing"
  /\ last' = Call("_feed", Null, "ParserRejectedMarkup")
  /\ UNCHANGED <<treeVars, parseVars, vocab, parse_only, calls>>

\* The loop ran out of strategies: if not success: raise.
RaiseRejected ==
  /\ phase = "preparing"
  /\ construction.tried = construction.prepared
  /\ construction' =
       [construction EXCEPT !.raised = <<Aggregated(construction.rejections)>>]
  /\ phase' = "raised"
  /\ last' = Call("__init__", Null, "ParserRejectedMarkup")
  /\ UNCHANGED <<treeVars, parseVars, vocab, parse_only, calls>>

InitConstruct ==
  \E prepared \in 0 .. MaxPrepared :
    InitAt([names |-> {"a"}, chunks |-> {<<"x">>}, maxChunks |-> 1,
            prefixes |-> {PyNone}, attrs |-> {<<>>}, strainers |-> {PyNone}],
           "preparing", Constructing(prepared, 0))

NextConstruct ==
  \/ NextPrepared
  \/ \E e \in Causes : Rejected(e)
  \/ RaiseRejected
  \/ NextFeed

SpecConstruct == InitConstruct /\ [][NextConstruct]_vars

----------------------------------------------------------------------------
(* Queries on the parsed document.                                         *)

\* Largest limit handed to find_all, and the number of queries made on a
\* document.
MaxLimit == 2
MaxQueries == 1

\* The markups of the query runs: tags with and without a class attribute,
\* which Tag.__init__ stores as a list, and tags with and without a prefix.
QueryVocabs ==
  {[names |-> {"a", "b"}, chunks |-> {<<"x">>}, maxChunks |-> 1,
    prefixes |-> {PyNone},
    attrs |-> {<<>>, [class |-> List(<<"x", "y">>)],
               [class |-> List(<<"y">>)]},
    strainers |-> {PyNone}],
   [names |-> {"a"}, chunks |-> {<<"x">>}, maxChunks |-> 1,
    prefixes |-> {PyNone, Str("n")}, attrs |-> {<<>>},
    strainers |-> {PyNone}]}

\* The strainers of the query runs: each filter absent (None) or a literal
\* string.
Strainers ==
  {[name |-> nf, attrs |-> af, string |-> sf] :
     nf \in {PyNone, Str("a"), Str("n:a"), Str("")},
     af \in {<<>>, [class |-> Str("x")], [class |-> Str("x y")],
             [class |-> Str("")], [class |-> PyNone]},
     sf \in {PyNone, Str("x")}}

\* The strainers find_all is called with.
Queries ==
  {q \in Strainers :
     /\ q.name \in {PyNone, Str("a")}
     /\ q.attrs \in {<<>>, [class |-> Str("x")]}}

\* The names find_all is called with alone, without a limit.
NameQueries == {PyNone, PyTrue, Str("a"), Str("n:a"), Str("")}

\* self.find_all(name, attrs, string=string, limit=limit) on a tag of the
\* document; nothing of the document changes.
FindAll(self, strainer, limit) ==
  /\ phase = "built"
  /\ calls < MaxQueries
  /\ IsTag(self) /\ cls[self] # ""
  /\ calls' = calls + 1
  /\ last' = Call("find_all", self,
                  [strainer |-> strainer, limit |-> limit,
                   found |-> find_all(Soup, self, strainer, limit)])
  /\ UNCHANGED <<treeVars, parseVars, phase, given>>

InitQuery == \E v \in QueryVocabs : InitWith(v)

NextQuery ==
  \/ NextFeed
  \/ \E self \in Nodes, strainer \in Queries, limit \in 1 .. MaxLimit :
        FindAll(self, strainer, limit)
  \/ \E self \in Nodes, nm \in NameQueries :
        FindAll(self, [name |-> nm, attrs |-> <<>>, string |-> PyNone], 0)

SpecQuery == InitQuery /\ [][NextQuery]_vars

----------------------------------------------------------------------------
(* builder/core/registry.py: the registry of tree builders by feature.     *)

\* The tree builder classes and the features each one advertises.
TreeBuilders ==
  ("html.parser" :> <<"html.parser", "html", "strict">>)
  @@ ("html5lib" :> <<"html5lib", "permissive", "html5", "html">>)
  @@ ("lxml" :> <<"lxml-html", "lxml", "html", "fast", "permissive">>)

\* Most registrations, most features asked for in one lookup, and the
\* features asked for: no class above advertises "xml".
MaxRegistered == 3
MaxFeatures == 2
Wanted == {"html", "permissive", "strict", "xml"}

\* self.builders_for_feature.get(feature, [])
BuildersFor(c, feature) ==
  IF feature \in DOMAIN c.builders_for_feature
    THEN c.builders_for_feature[feature] ELSE <<>>

RECURSIVE RegisterFeatures(_, _, _)
\* for feature in treebuilder_class.features:
\*     self.builders_for_feature[feature].insert(0, treebuilder_class)
RegisterFeatures(by_feature, features, treebuilder_class) ==
  IF features = <<>> THEN by_feature
  ELSE RegisterFeatures(
         [f \in DOMAIN by_feature \cup {Head(features)} |->
            IF f = Head(features)
              THEN <<treebuilder_class>>
                   \o (IF f \in DOMAIN by_feature THEN by_feature[f] ELSE <<>>)
              ELSE by_feature[f]],
         Tail(features), treebuilder_class)

\* TreeBuilderRegistry.register(treebuilder_class).
register(c, treebuilder_class) ==
  [c EXCEPT
     !.builders_for_feature =
        RegisterFeatures(@, TreeBuilders[treebuilder_class], treebuilder_class),
     !.builders = <<treebuilder_class>> \o @]

\* for candidate in candidates: if candidate in candidate_set: return it.
FirstCandidate(candidates, candidate_set) ==
  IF \E i \in 1 .. Len(candidates) : candidates[i] \in candidate_set
    THEN Str(candidates[CHOOSE i \in 1 .. Len(candidates) :
                          /\ candidates[i] \in candidate_set
                          /\ \A j \in 1 .. i - 1 :
                               candidates[j] \notin candidate_set])
    ELSE PyNone

RECURSIVE LookupLoop(_, _, _, _)
\* The while loop of lookup and what follows it: `features` are the ones
\* still to come, in the order given; candidates is None or a list.
LookupLoop(c, features, candidates, candidate_set) ==
  IF features = <<>>
    THEN IF candidates = PyNone THEN PyNone
         ELSE FirstCandidate(candidates.v, candidate_set)
  ELSE IF Len(BuildersFor(c, Head(features))) > 0
    THEN IF candidates = PyNone
           THEN LookupLoop(c, Tail(features),
                           List(BuildersFor(c, Head(features))),
                           Range(BuildersFor(c, Head(features))))
           ELSE LookupLoop(c, Tail(features), candidates,
                           candidate_set
                             \cap Range(BuildersFor(c, Head(features))))
  ELSE LookupLoop(c, Tail(features), candidates, candidate_set)

\* TreeBuilderRegistry.lookup(*features): a class, or None.
lookup(c, features) ==
  IF Len(c.builders) = 0 THEN PyNone
  ELSE IF Len(features) = 0 THEN Str(c.builders[1])
  ELSE LookupLoop(c, features, PyNone, {})

Register(treebuilder_class) ==
  /\ phase = "registering"
  /\ Len(construction.builders) < MaxRegistered
  /\ construction' = register(construction, treebuilder_class)
  /\ last' = Call("register", Null, "ok")
  /\ UNCHANGED <<treeVars, parseVars, phase, vocab, parse_only, calls>>

Lookup(features) ==
  /\ phase = "registering"
  /\ last' = Call("lookup", Null,
                  [features |-> features,
                   found |-> lookup(construction, features)])
  /\ UNCHANGED <<treeVars, parseVars, phase, given, calls>>

InitRegistry ==
  InitAt([names |-> {"a"}, chunks |-> {<<"x">>}, maxChunks |-> 1,
          prefixes |-> {PyNone}, attrs |-> {<<>>}, strainers |-> {PyNone}],
         "registering", Constructing(0, 0))

NextRegistry ==
  \/ \E treebuilder_class \in DOMAIN TreeBuilders : Register(treebuilder_class)
  \/ \E features \in UNION {[1 .. k -> Wanted] : k \in 0 .. MaxFeatures} :
       Lookup(features)

SpecRegistry == InitRegistry /\ [][NextRegistry]_vars

----------------------------------------------------------------------------
(* builder/core/xml.py: guessing from the raw markup that XML is parsed as  *)
(* HTML.  A text is a sequence of characters, a byte string a sequence of  *)
(* bytes; an ASCII character and its byte are written alike.                *)

\* DetectsXMLParsedAsHTML.XML_PREFIX and XML_PREFIX_B.
XML_PREFIX == <<"<", "?", "x", "m", "l">>
XML_PREFIX_B == <<"<", "?", "x", "m", "l">>

\* The window markup[:500] of warn_if_markup_looks_like_xml.
HtmlWindow == 500

\* The length of the run of spaces among the pieces of markup, and the most
\* pieces in a markup: '<?xml' + 'é' + the spaces + '</html' is HtmlWindow
\* characters and one byte more.
PadLen == 488
MaxPieces == 4

\* The pieces markup is made of, as texts.
Pieces ==
  {XML_PREFIX, <<"<", "h", "t", "m", "l">>, <<"<", "/", "H", "T", "M", "L">>,
   <<"<", "a">>, <<"é">>, [i \in 1 .. PadLen |-> " "]}

\* str.encode("utf8") of one character: 'é' is the two bytes C3 A9.
EncodeChar(c) == IF c = "é" THEN <<"\\xc3", "\\xa9">> ELSE <<c>>

\* The text of a markup, and markup.encode("utf8").
RECURSIVE Text(_)
Text(pieces) == IF pieces = <<>> THEN <<>> ELSE Head(pieces) \o Text(Tail(pieces))
RECURSIVE Encode(_)
Encode(pieces) ==
  IF pieces = <<>> THEN <<>>
  ELSE (IF Head(pieces) = <<"é">> THEN EncodeChar("é") ELSE Head(pieces))
       \o Encode(Tail(pieces))

\* re.I on the letters of 'html'.
Lower(c) ==
  CASE c = "H" -> "h" [] c = "T" -> "t" [] c = "M" -> "m" [] c = "L" -> "l"
    [] OTHER -> c

\* LOOKS_LIKE_HTML.search(data), the pattern "<[^ +]html" with re.I: a '<',
\* one character that is neither a space nor a plus, then 'html'.
LooksLikeHtml(data) ==
  \E i \in 1 .. Len(data) - 5 :
    /\ data[i] = "<"
    /\ data[i + 1] \notin {" ", "+"}
    /\ <<Lower(data[i + 2]), Lower(data[i + 3]), Lower(data[i + 4]),
         Lower(data[i + 5])>> = <<"h", "t", "m", "l">>

\* warn_if_markup_looks_like_xml(markup) for a markup that is not None:
\* what it returns, which is also whether it called _warn().
warn_if_markup_looks_like_xml(markup, isBytes) ==
  LET xml_prefix == IF isBytes THEN XML_PREFIX_B ELSE XML_PREFIX
  IN /\ Len(markup) >= Len(xml_prefix)
     /\ SubSeq(markup, 1, Len(xml_prefix)) = xml_prefix
     /\ ~LooksLikeHtml(SubSeq(markup, 1, Min(Len(markup), HtmlWindow)))

\* DetectsXMLParsedAsHTML.warn_if_markup_looks_like_xml(data) for data the
\* text of the markup or its bytes.
WarnIfMarkupLooksLikeXml(isBytes) ==
  /\ phase = "feeding"
  /\ last' =
       Call("warn_if_markup_looks_like_xml", Null,
            [bytes |-> isBytes,
             result |-> warn_if_markup_looks_like_xml(
                          IF isBytes THEN Encode(construction.markup)
                          ELSE Text(construction.markup), isBytes)])
  /\ UNCHANGED <<treeVars, parseVars, phase, given, calls>>

\* The markups of up to MaxPieces pieces.
Markups == UNION {[1 .. n -> Pieces] : n \in 0 .. MaxPieces}

InitMarkup ==
  \E m \in Markups :
    InitAt([names |-> {"a"}, chunks |-> {<<"x">>}, maxChunks |-> 1,
            prefixes |-> {PyNone}, attrs |-> {<<>>}, strainers |-> {PyNone}],
           "feeding", [Constructing(1, 1) EXCEPT !.markup = m])

NextMarkup == \E isBytes \in BOOLEAN : WarnIfMarkupLooksLikeXml(isBytes)

SpecMarkup == InitMarkup /\ [][NextMarkup]_vars

----------------
(* The claims.                                                             *)

\* C1: after any sequence of the public mutators, following next_element
\* from the first node below the root visits the nodes below the root once
\* each, in pre-order, and then reaches null, and previous_element is the
\* exact inverse of next_element among them.
DocumentOrderTotality ==
  Settled =>
    /\ ChainIsPreOrder(Tree)
    /\ ExactInverse(Tree, Range(Below(Tree, Root)))

\* C2: after any sequence of public mutators, in every element's contents
\* each child's previous_sibling is the child before it (null for the first)
\* and its next_sibling the child after it (null for the last).
SiblingConsistency ==
  Settled => \A E \in Nodes : SiblingsConsistent(Tree, E)

\* C2's case: two mutator calls have been made, the last an insert that
\* returned, and some element has three children or more.
SiblingsAfterInserts ==
  /\ Settled /\ calls = 2
  /\ last.op = "insert" /\ last.res = "ok"
  /\ \E E \in Nodes : Len(contents[E]) >= 3

\* C3: after any sequence of public mutators, every node with a non-null
\* parent occurs exactly once in that parent's contents and in no other
\* element's contents.
SingleParentAlways == Settled => SingleParent(Tree)

\* C4: insert(parent, position, new_node) fails when new_node is parent or
\* an ancestor of parent, so that after any sequence of mutators the parent
\* relation is acyclic and no node is inside its own subtree.
InsertRefusesAncestors ==
  Settled =>
    /\ Acyclic(Tree)
    /\ \A self \in Nodes, new_child \in Nodes :
         (IsTag(self) /\ new_child \in {self} \cup Ancestors(Tree, self)) =>
           \A position \in Positions(self) :
             insert(Tree, self, position, new_child).res \in Raised

RoundTripRestores ==
  (Settled /\ WellFormed(Tree)) =>
    \A n \in Nodes : Attached(Tree, n) => RoundTrip(Tree, n)

\* C7: extract(n) on an attached node, whenever no node is inside its own
\* subtree: n's parent, siblings and previous_element and its last
\* descendant's next_element are null, every link between two nodes inside
\* n's subtree is unchanged, and the node that preceded n is linked both ways
\* to the node that followed n's last descendant.
ExtractFrameAndEffect ==
  (Settled /\ Acyclic(Tree)) =>
    \A n \in Nodes :
      Attached(Tree, n) => ExtractEffect(Tree, n, extract(Tree, n, Null))

\* C8: replace_with(node, r1..rk) on an attached node: r1..rk end up as
\* consecutive children of node's former parent, in argument order, where
\* node was (right after the children that preceded node and stay), and the
\* other children keep their order, also when some ri was a sibling of node.
ReplaceWithConsecutive ==
  (Settled /\ WellFormed(Tree)) =>
    \A node \in Nodes, args \in ArgTuples(MaxArgs) :
      (Attached(Tree, node) /\ Replacements(Tree, node, args)) =>
        ReplaceEffect(Tree, node, args, replace_with(Tree, node, args))

\* C9: replace_with(node, *replacements) raises and leaves the tree as it
\* was when node has no parent, and raises when a replacement is an ancestor
\* of node at any distance.
ReplaceWithRefuses ==
  (Settled /\ WellFormed(Tree)) =>
    \A node \in Nodes, args \in ArgTuples(MaxArgs) :
      /\ parent[node] = Null =>
           /\ replace_with(Tree, node, args).res \in Raised
           /\ replace_with(Tree, node, args).t = Tree
      /\ (Attached(Tree, node)
          /\ Range(args) \cap Ancestors(Tree, node) # {}) =>
           replace_with(Tree, node, args).res \in Raised

\* C10: unwrap(node) on an attached node: node's former children are
\* children of its former parent, in their order, from node's former index
\* on, and node has no parent and no children; checked for every node of the
\* document, and for every node outside it while no node is inside its own
\* subtree.
UnwrapHoistsChildren ==
  Settled =>
    \A node \in Nodes :
      (Attached(Tree, node)
       /\ (node \in DocumentNodes(Tree) \/ Acyclic(Tree))) =>
        UnwrapEffect(Tree, node, unwrap(Tree, node))

\* C10's case: the first call on a parsed document unwrapped a parsed
\* element whose children were hoisted to the front of the document: the
\* root's next_element, which no parse sets, names its new first child, and
\* the root has two children or more.
UnwrappedParent ==
  /\ Settled /\ calls = 1
  /\ last.op = "unwrap" /\ last.res = "ok"
  /\ cls[last.self] = "Tag"
  /\ parent[last.self] = Null /\ contents[last.self] = <<>>
  /\ next_element[Root] # Null
  /\ next_element[Root] = PyGet(contents[Root], 0)
  /\ Len(contents[Root]) >= 2

\* n's own parent link is sound: it has no parent or is listed in it.
Sound(t, n) == t.parent[n] = Null \/ Attached(t, n)

\* container can wrap node: an element other than node, the document and
\* node's ancestors, whose own parent link is sound.
Wrapper(t, node, container) ==
  /\ IsTag(container)
  /\ container \notin {node, Root} \cup Ancestors(t, node)
  /\ Sound(t, container)

\* The effect of wrap(node, container), r being its outcome on tree t: in
\* the former parent's contents (container itself taken out, had it been a
\* sibling) container stands where node stood, and node is the last child
\* of container.
WrapEffect(t, node, container, r) ==
  LET p == t.parent[node]
      rest == Without(t.contents[t.parent[node]], {container})
  IN /\ r.res = "ok"
     /\ r.t.contents[p] =
          [k \in 1 .. Len(rest) |->
             IF rest[k] = node THEN container ELSE rest[k]]
     /\ r.t.contents[container] = t.contents[container] \o <<node>>
     /\ r.t.parent[node] = container
     /\ r.t.parent[container] = p

Callable == Settled /\ calls < MaxCalls

\* The place (from 1) of x in seq.
PosIn(seq, x) == CHOOSE k \in 1 .. Len(seq) : seq[k] = x

\* new is rest with args spliced in after its first j elements.
SplicedAt(rest, j, args, new) ==
  new = SubSeq(rest, 1, j) \o args \o SubSeq(rest, j + 1, Len(rest))

\* The effect of insert_before (shift 0) and insert_after (shift 1), r
\* being the outcome on tree t: in the parent's contents, the arguments
\* taken out of where they were, args stand in argument order right before
\* (right after) node, and the parent is their parent.
Beside(t, node, args, r, shift) ==
  /\ r.res = "ok"
  /\ SplicedAt(Without(t.contents[t.parent[node]], Range(args)),
               PosIn(Without(t.contents[t.parent[node]], Range(args)), node)
                 - 1 + shift,
               args, r.t.contents[t.parent[node]])
  /\ \A k \in 1 .. Len(args) : r.t.parent[args[k]] = t.parent[node]

\* C12: insert_before(node, s1..sk) leaves s1..sk as consecutive children of
\* node's parent right before node, in argument order, and
\* insert_after(node, s1..sk) right after node, in argument order, also when
\* some si was a sibling of node on either side; the si are distinct
\* elements with a sound parent link, none of them node, the document or an
\* ancestor of node.
SiblingInsertionPlaces ==
  Callable =>
    \A node \in Nodes :
      (/\ Attached(Tree, node)
       /\ (node \in DocumentNodes(Tree) \/ Acyclic(Tree))) =>
        \A args \in ArgTuples(MaxArgs) :
          (/\ Replacements(Tree, node, args)
           /\ \A k \in 1 .. Len(args) : Sound(Tree, args[k])) =>
            /\ Beside(Tree, node, args, insert_before(Tree, node, args), 0)
            /\ Beside(Tree, node, args, insert_after(Tree, node, args), 1)

\* C12's case: after a first call, insert_after put a successor between a
\* node of the document and the sibling that followed it: the node's parent
\* has three children or more and the node is neither the first nor among
\* the last two.
InsertedAfterBetween ==
  /\ Settled /\ calls = 2
  /\ last.op = "insert_after" /\ last.res = "ok"
  /\ last.self \in Range(Below(Tree, Root))
  /\ previous_sibling[last.self] # Null
  /\ next_sibling[last.self] # Null
  /\ next_sibling[next_sibling[last.self]] # Null
  /\ Len(contents[parent[last.self]]) >= 4

\* position clamped to the range [0, len(contents)] of self.
Clamp(t, self, position) ==
  IF position < 0 THEN 0 ELSE Min(position, Len(t.contents[self]))

\* new_child can be inserted into self: an object other than self, the
\* document and self's ancestors, whose own parent link is sound.
Insertable(t, self, new_child) ==
  /\ IsTag(self)
  /\ new_child \notin {self, Root} \cup Ancestors(t, self)
  /\ Sound(t, new_child)

\* C13: insert(parent, position, new_node) clamps position to
\* [0, len(parent.contents)]: a position below 0 acts as 0 and one above the
\* length as an append, whatever the length; stated on trees that satisfy
\* I1-I5.
InsertClampsPosition ==
  (Callable /\ WellFormed(Tree)) =>
    \A self, new_child \in Nodes :
      Insertable(Tree, self, new_child) =>
        \A position \in Positions(self) :
          insert(Tree, self, position, new_child)
            = insert(Tree, self, Clamp(Tree, self, position), new_child)

\* new is old with child moved to stand right before the node that was at
\* index position (last when there was none), the others in their order.
Moved(old, position, child, new) ==
  IF position >= Len(old) THEN new = Without(old, {child}) \o <<child>>
  ELSE IF old[position + 1] = child THEN new = old
  ELSE SplicedAt(Without(old, {child}),
                 PosIn(Without(old, {child}), old[position + 1]) - 1,
                 <<child>>, new)

\* The effect of insert(self, position, child) on a child of self, r being
\* its outcome on tree t.
MoveEffect(t, self, position, child, r) ==
  /\ r.res = "ok"
  /\ Moved(t.contents[self], position, child, r.t.contents[self])
  /\ r.t.parent[child] = self

\* C14: insert(parent, position, child) with child already a child of
\* parent and position >= 0: child ends right before the node that was at
\* index position (last when position >= len(contents)) and the other
\* children keep their order, whether child stood before or after position.
InsertMovesChild ==
  Callable =>
    \A self \in Nodes :
      (IsTag(self) /\ (self \in DocumentNodes(Tree) \/ Acyclic(Tree))) =>
        \A child \in Range(contents[self]) :
          parent[child] = self =>
            \A position \in 0 .. (Len(contents[self]) + 1) :
              MoveEffect(Tree, self, position, child,
                         insert(Tree, self, position, child))

\* C14's case: one insert into the parsed document left parsed tags, which
\* a parse lists in the order of their creation, in the opposite order as
\* neighbours under the document.
MovedAmongSiblings ==
  /\ Settled /\ calls = 1
  /\ last.op = "insert" /\ last.res = "ok" /\ last.self = Root
  /\ Len(contents[Root]) >= 3
  /\ \A i \in 1 .. Len(contents[Root]) : cls[contents[Root][i]] # ""
  /\ \E i \in 1 .. (Len(contents[Root]) - 1) :
       /\ cls[contents[Root][i]] = "Tag"
       /\ cls[contents[Root][i + 1]] = "Tag"
       /\ contents[Root][i] > contents[Root][i + 1]

\* The call was refused: it raised and left every contents list and every
\* navigational field as it was.
Refused(t, r) == r.res \in Raised /\ r.t = t

\* C15: insert(parent, position, null) and insert(parent, position, parent)
\* both raise an error and leave all contents lists and all five
\* navigational fields of every node unchanged.
InsertRefusesNullAndSelf ==
  Settled =>
    \A self \in Nodes :
      IsTag(self) =>
        \A position \in Positions(self) :
          /\ Refused(Tree, insert(Tree, self, position, Null))
          /\ Refused(Tree, insert(Tree, self, position, self))

\* C15's case: the first call on a parsed document with nodes in it was an
\* insert into an element of the document, and it raised ValueError.
InsertWasRefused ==
  /\ Settled /\ calls = 1
  /\ last.op = "insert" /\ last.res = "ValueError"
  /\ last.self \in Range(Below(Tree, Root))
  /\ contents[last.self] # <<>>

\* C16: insert_before and insert_after called on the document root raise an
\* error (NotImplementedError) for any arguments, none included, and leave
\* the tree as it was.
RootRefusesSiblings ==
  Settled =>
    \A args \in ArgTuples(MaxArgs) \cup {<<>>} :
      /\ Refused(Tree, insert_before(Tree, Root, args))
      /\ insert_before(Tree, Root, args).res = "NotImplementedError"
      /\ Refused(Tree, insert_after(Tree, Root, args))
      /\ insert_after(Tree, Root, args).res = "NotImplementedError"

\* C16's case: insert_before was called on the root of a document that has
\* nodes in it and raised NotImplementedError.
RootRefusedSibling ==
  /\ Settled
  /\ last.op = "insert_before" /\ last.self = Root
  /\ last.res = "NotImplementedError"
  /\ contents[Root] # <<>>

\* The nodes that y's fields and contents refer to.
LinksOf(t, y) ==
  {t.parent[y], t.next_element[y], t.previous_element[y], t.next_sibling[y],
   t.previous_sibling[y]} \cup Range(t.contents[y])

\* The effect of decompose(node), r being its outcome on tree t.
DecomposeEffect(t, node, r) ==
  /\ r.res = "ok"
  /\ index(r.t, t.parent[node], node) = Null
  /\ \A x \in Range(Subtree(t, node, Fuel)) :
       has_decomposed(r.t, x) /\ r.t.contents[x] = <<>>
  /\ \A y \in DocumentNodes(r.t) :
       /\ ~has_decomposed(r.t, y)
       /\ \A z \in LinksOf(r.t, y) : z # Null => ~has_decomposed(r.t, z)

\* C17: after decompose(node) on an element of the document, node is not in
\* its former parent's contents, node and every node of its subtree are
\* marked decomposed and have empty contents, and no node that remains in
\* the document is decomposed or has a parent, sibling, document-order or
\* child link to a decomposed node.
DecomposeWipesSubtreeOnly ==
  Settled =>
    \A node \in DocumentNodes(Tree) :
      (IsTag(node) /\ Attached(Tree, node)) =>
        DecomposeEffect(Tree, node, decompose(Tree, node))

\* I1-I4 for the document: the tree below the root as the contents lists
\* give it.
DocumentWellFormed(t) ==
  /\ ChainIsPreOrder(t)
  /\ ExactInverse(t, DocumentNodes(t))
  /\ \A E \in DocumentNodes(t) :
       SiblingsConsistent(t, E) /\ DescendantsExact(t, E)
  /\ \A n \in Range(Below(t, Root)) :
       \A E \in Nodes :
         Occurrences(t, E, n) = IF E = t.parent[n] THEN 1 ELSE 0

\* Trees t1 and t2 agree on every field of every node of S.
SameOn(S, t1, t2) ==
  \A y \in S :
    /\ t1.parent[y] = t2.parent[y]
    /\ t1.next_element[y] = t2.next_element[y]
    /\ t1.previous_element[y] = t2.previous_element[y]
    /\ t1.next_sibling[y] = t2.next_sibling[y]
    /\ t1.previous_sibling[y] = t2.previous_sibling[y]
    /\ t1.contents[y] = t2.contents[y]
    /\ t1.decomposed[y] = t2.decomposed[y]

\* decompose(node) twice on tree t, with outcomes r1 and then r2.
DecomposeTwice(t, node, r1, r2) ==
  /\ r1.res = "ok"
  /\ r2.res = "ok"
  /\ DocumentWellFormed(t) => DocumentWellFormed(r1.t)
  /\ SameOn(Nodes \ Range(Subtree(t, node, Fuel)), r1.t, r2.t)

\* C18: decompose called a second time on the element it was called on
\* raises no error and changes no field of any node outside the decomposed
\* subtree; the document, if it satisfied I1-I4, satisfies them after the
\* first call and so after the second.
DecomposeTwiceIsSafe ==
  Settled =>
    \A node \in DocumentNodes(Tree) :
      (IsTag(node) /\ Attached(Tree, node)) =>
        DecomposeTwice(Tree, node, decompose(Tree, node),
                       decompose(decompose(Tree, node).t, node))

\* C18's case: the second of two calls was decompose on an element already
\* decomposed together with a child element; it returned, its own
\* next_element now null, and the document still has nodes.
DecomposedAgain ==
  /\ phase = "decomposed" /\ calls = 2
  /\ last.op = "decompose" /\ last.res = "ok"
  /\ decomposed[last.self]
  /\ next_element[last.self] = Null
  /\ \E c \in Nodes : decomposed[c] /\ parent[c] = last.self
  /\ contents[Root] # <<>>

\* P1 and I4 for the document: the chain below the root is the pre-order
\* walk, previous_element its exact inverse, and the sibling fields agree
\* with every contents list.
DocumentOrdered(t) ==
  /\ ChainIsPreOrder(t)
  /\ ExactInverse(t, Range(Below(t, Root)))
  /\ \A E \in DocumentNodes(t) : SiblingsConsistent(t, E)

\* appendChild(self, node) reaches object_was_parsed with a parent whose
\* next_element is not null.
AppendsUnderClosed(s, self, node) ==
  /\ IsTag(self) /\ s.cls[self] # ""
  /\ self \in DocumentNodes(s.t)
  /\ s.t.next_element[self] # Null
  /\ node # self /\ node # Root /\ node \notin Ancestors(s.t, self)
  /\ ~(/\ s.cls[node] = "NavigableString"
       /\ s.t.contents[self] # <<>>
       /\ s.cls[PyGet(s.t.contents[self], 0 - 1)] = "NavigableString")

\* C19: when the document satisfies document-order totality and sibling
\* agreement, and object_was_parsed appends a new text leaf, or an element
\* with or without children, under an explicit parent in the document whose
\* next_element is not null, the document satisfies them afterwards.
FixerKeepsDocumentOrder ==
  (phase = "feeding" /\ DocumentOrdered(Tree)) =>
    /\ \A self \in Nodes, node \in Nodes :
         (/\ AppendsUnderClosed(Soup, self, node)
          /\ IsTag(node) /\ cls[node] = "Tag") =>
           DocumentOrdered(appendChild(Soup, self, node).s.t)
    /\ \A self \in Nodes, data \in vocab.chunks :
         (/\ FreshNodes(Soup, FALSE) # {}
          /\ AppendsUnderClosed(new_string(Soup, Lowest(FreshNodes(Soup, FALSE)), data),
                                self, Lowest(FreshNodes(Soup, FALSE)))) =>
           DocumentOrdered(insertText(Soup, self, data,
                                      Lowest(FreshNodes(Soup, FALSE))).s.t)

\* The tree in the next state.
TreeNext ==
  [parent |-> parent', next_element |-> next_element',
   previous_element |-> previous_element',
   next_sibling |-> next_sibling', previous_sibling |-> previous_sibling',
   contents |-> contents', decomposed |-> decomposed']

\* The objects a step constructs.
CreatedIn == {n \in Nodes : cls[n] = "" /\ cls'[n] # ""}

\* The same in the order of their creation: an event flushes the pending
\* text into a string (endData) before it builds its tag.
CreatedSeq ==
  (IF \E n \in CreatedIn : ~IsTag(n)
     THEN <<CHOOSE n \in CreatedIn : ~IsTag(n)>> ELSE <<>>)
  \o (IF \E n \in CreatedIn : IsTag(n)
        THEN <<CHOOSE n \in CreatedIn : IsTag(n)>> ELSE <<>>)

\* One event of the feed, the element on top of tagStack being `top`.
EventAppends(top) ==
  /\ CreatedIn = Range(CreatedSeq)
  /\ \A n \in CreatedIn : parent'[n] = top
  /\ contents'[top] = contents[top] \o CreatedSeq
  /\ Below(TreeNext, Root) = Below(Tree, Root) \o CreatedSeq
  /\ ChainIsPreOrder(TreeNext)
  /\ \A E \in Nodes : cls'[E] # "" => DescendantsExact(TreeNext, E)

\* C20: every event of the feed gives each node it creates the element on
\* top of the open-element stack as parent and appends it as that element's
\* last child; the nodes created come last in the document order, which is
\* the next_element chain and what descendants yields, so document order is
\* creation order.
EventsBuildInCreationOrder ==
  [][phase = "feeding" => EventAppends(Top(tagStack))]_vars

\* C20's case, Scenario D with the nodes at hand: '<a>x<b>x' followed by
\* an end tag has built a['x', b['x']], the text flushed by the events
\* that followed it.
NestedFeedBuilt ==
  /\ phase = "feeding"
  /\ last.op = "handle_endtag"
  /\ \E a, b, x, y \in Nodes :
       /\ contents[Root] = <<a>>
       /\ contents[a] = <<x, b>>
       /\ contents[b] = <<y>>
       /\ name[a] = "a" /\ name[b] = "b"
       /\ descendants(Tree, a).seq = <<x, b, y>>

\* The positions on the open-element stack, the root's aside, of the
\* elements of this name and prefix.
OpenMatches(s, nm, nsprefix) ==
  {i \in 2 .. Len(s.tagStack) :
     s.name[s.tagStack[i]] = nm /\ s.prefix[s.tagStack[i]] = nsprefix}

\* The stack that handle_endtag(nm, nsprefix) is to leave.
PoppedToMatch(s, nm, nsprefix) ==
  IF OpenMatches(s, nm, nsprefix) = {} THEN s.tagStack
  ELSE SubSeq(s.tagStack, 1,
              (CHOOSE i \in OpenMatches(s, nm, nsprefix) :
                 \A j \in OpenMatches(s, nm, nsprefix) : j <= i) - 1)

\* C21: handle_endtag(name, prefix) leaves the open-element stack cut just
\* below the most recent open element of that name and prefix, and unchanged
\* when no open element has that name and prefix.
EndTagPopsToMatch ==
  (phase = "feeding" /\ PendingTextFits(Soup)) =>
    \A nm \in vocab.names, nsprefix \in vocab.prefixes :
      handle_endtag(Soup, nm, nsprefix).tagStack
        = PoppedToMatch(Soup, nm, nsprefix)

\* The number of elements of this name on the open-element stack, the root
\* excluded.
OpenNamed(nm) ==
  Cardinality({i \in 2 .. Len(tagStack) : name[tagStack[i]] = nm})

\* C22: during and after the feed, for every tag name the open-name counter
\* equals the number of elements of that name on the open-element stack,
\* the root excluded, and is not negative.
CounterCountsOpenNames ==
  \A nm \in vocab.names \cup DOMAIN open_tag_counter :
    /\ CounterGet(open_tag_counter, nm) = OpenNamed(nm)
    /\ CounterGet(open_tag_counter, nm) >= 0

\* C22's case: an end tag has closed one of two nested elements of the same
\* name, the other still open: the counter went up to 2 and is back at 1.
CounterAfterNestedClose ==
  /\ phase = "feeding" /\ last.op = "handle_endtag"
  /\ \E a, b \in Nodes :
       /\ a # b /\ name[a] = name[b] /\ parent[b] = a
       /\ tagStack = <<Root, a>>
       /\ CounterGet(open_tag_counter, name[a]) = 1

\* A step that is a handle_data call: the buffer grows by one chunk, put
\* last.
DataStep == \E data \in vocab.chunks : current_data' = Append(current_data, data)

\* The pending text as endData would store it, and whether the
\* partial-parse filter lets it into the tree (main.py 617-624).
PendingText == Collapse(Soup, Join(current_data))
FilterDropsText ==
  /\ parse_only # PyNone
  /\ Len(tagStack) <= 1
  /\ \/ ~Truthy(parse_only.string)
     \/ ~SearchString(parse_only, JoinWith("", PendingText))

\* One step of the feed: a handle_data call builds nothing; any other event
\* empties the buffer and, when `kept`, turns a non-empty buffer into exactly
\* one string, the next child of the element that was on top of the stack,
\* in front of whatever the event itself builds.
TextFlushed(kept) ==
  LET top == Top(tagStack)
      strings == {n \in CreatedIn : ~IsTag(n)}
  IN IF Len(current_data') > Len(current_data)
       THEN DataStep /\ CreatedIn = {} /\ TreeNext = Tree
       ELSE /\ current_data' = <<>>
            /\ IF current_data = <<>> \/ ~kept
                 THEN strings = {}
                 ELSE \E o \in strings :
                        /\ strings = {o}
                        /\ value'[o] = PendingText
                        /\ parent'[o] = top
                        /\ Len(contents'[top]) > Len(contents[top])
                        /\ contents'[top][Len(contents[top]) + 1] = o

\* C23 as stated: handle_data creates no node, and every run of handle_data
\* calls produces exactly one text node at the next start-tag, end-tag or
\* end-of-document event, before that event's own effect, holding the
\* concatenation of the chunks in order.
EveryRunBecomesOneString ==
  [][phase = "feeding" => TextFlushed(TRUE)]_vars

\* C23, amended: the same, except that a run flushed while a partial-parse
\* filter is set and no element is open produces no node at all unless the
\* filter has a string filter that matches the text.
EveryKeptRunBecomesOneString ==
  [][phase = "feeding" => TextFlushed(~FilterDropsText)]_vars

\* C23's case: a run of two chunks has become one string of the tree.
TwoChunksInOneString ==
  \E o \in Nodes :
    /\ ~IsTag(o) /\ parent[o] # Null
    /\ value[o] = <<"x", " ">>
    /\ current_data = <<>>

\* Whether an element that preserves whitespace is on the open-element
\* stack.
PreserverOpen ==
  \E i \in 1 .. Len(tagStack) : name[tagStack[i]] \in PreserveWhitespaceTags

\* C24: the string a flush creates is a single newline or, without a newline
\* in the buffer, a single space when no whitespace-preserving element is
\* open and the buffer holds ASCII whitespace only; otherwise it is the
\* buffer verbatim.
WhitespaceCollapsedOutsidePreservers ==
  [][phase = "feeding" =>
       \A o \in CreatedIn :
         ~IsTag(o) =>
           LET buffer == Join(current_data)
               blank == \A i \in 1 .. Len(buffer) :
                          buffer[i] \in {" ", "\n", "\t", "\f", "\r"}
           IN value'[o] =
                IF ~PreserverOpen /\ blank
                  THEN IF \E i \in 1 .. Len(buffer) : buffer[i] = "\n"
                         THEN <<"\n">> ELSE <<" ">>
                  ELSE buffer]_vars

\* C24's case: whitespace with a newline was kept verbatim inside <pre> and
\* collapsed to the newline after it.
CollapsedAfterPre ==
  \E o1, o2 \in Nodes :
    /\ ~IsTag(o1) /\ ~IsTag(o2)
    /\ parent[o1] # Null /\ name[parent[o1]] = "pre"
    /\ value[o1] = <<" ", "\n">>
    /\ parent[o2] = Root /\ value[o2] = <<"\n">>

\* The positions of the open-element stack that hold a string container.
OpenContainers ==
  {i \in 1 .. Len(tagStack) : name[tagStack[i]] \in DOMAIN StringContainers}

\* C25: the string a flush creates gets the class configured for the
\* innermost string-container element still open, and the plain
\* NavigableString class when none is open.
StringsTypedByInnermostContainer ==
  [][phase = "feeding" =>
       \A o \in CreatedIn :
         ~IsTag(o) =>
           cls'[o] =
             IF OpenContainers = {} THEN "NavigableString"
             ELSE LET i == CHOOSE i \in OpenContainers :
                             \A j \in OpenContainers : j <= i
                  IN StringContainers[name[tagStack[i]]]]_vars

\* C25's case: '<script><style>x</style>x': the text inside both containers
\* is a Stylesheet, the text after the inner one was closed a Script.
TypedInsideAndAfterStyle ==
  \E o1, o2, e1, e2 \in Nodes :
    /\ name[e1] = "script" /\ name[e2] = "style"
    /\ contents[e1] = <<e2, o2>> /\ contents[e2] = <<o1>>
    /\ cls[o1] = "Stylesheet" /\ cls[o2] = "Script"

\* C25's other case: '<script>x</script>x': the text after the container
\* was closed is a plain NavigableString.
PlainAfterScriptClosed ==
  \E o1, o2, e1 \in Nodes :
    /\ name[e1] = "script"
    /\ contents[e1] = <<o1>> /\ contents[Root] = <<e1, o2>>
    /\ cls[o1] = "Script" /\ cls[o2] = "NavigableString"

\* Whether the partial-parse filter rejects this start tag (main.py 761-766).
Rejects(s, nm, attrs_) ==
  /\ s.parse_only # PyNone
  /\ Len(s.tagStack) <= 1
  /\ \/ Truthy(s.parse_only.string)
     \/ ~search_tag(s.parse_only, FALSE, nm, PyNone, attrs_, PyNone)

\* C26: a start tag the partial-parse filter rejects builds no element and
\* leaves the open-element stack, the open-name counter, most_recent_element
\* and every contents list as the flush of the pending text left them.
RejectedStartTagOnlyFlushes ==
  (phase = "feeding" /\ PendingTextFits(Soup)) =>
    \A nm \in vocab.names, nsprefix \in vocab.prefixes, attrs_ \in vocab.attrs :
      Rejects(endData(Soup), nm, attrs_) =>
        LET r == handle_starttag(Soup, nm, nsprefix, attrs_)
            e == endData(Soup)
        IN /\ r.tagStack = e.tagStack
           /\ r.open_tag_counter = e.open_tag_counter
           /\ r.most_recent_element = e.most_recent_element
           /\ r.t.contents = e.t.contents
           /\ \A n \in Nodes : IsTag(n) => r.cls[n] = e.cls[n]

\* C26's case: with parse_only naming 'a', the start tag of a 'b' has been
\* handled at the top level and nothing was built or opened.
StartTagWasRejected ==
  /\ phase = "feeding" /\ last.op = "handle_starttag"
  /\ parse_only # PyNone /\ parse_only.name = Str("a")
  /\ tagStack = <<Root>> /\ contents[Root] = <<>>
  /\ most_recent_element = Null
  /\ \A n \in Nodes \ {Root} : cls[n] = ""

\* One step of the constructor: the strategies are tried one after the
\* other, a rejection is recorded and the next one tried, the first strategy
\* fed to its end finishes the constructor, and the error is raised only once
\* each of the prepared strategies was rejected, its message naming the
\* cause of each in turn.
ConstructorStep ==
  LET c == construction
      d == construction'
  IN /\ phase # "built" /\ phase # "raised"
     /\ Len(c.rejections) = IF phase = "preparing" THEN c.tried ELSE c.tried - 1
     /\ d.prepared = c.prepared
     /\ (phase = "preparing" /\ phase' = "feeding") =>
          /\ c.tried < c.prepared /\ d.tried = c.tried + 1
          /\ d.rejections = c.rejections
     /\ (phase = "feeding" /\ phase' = "preparing") =>
          /\ d.tried = c.tried
          /\ \E e \in Causes : d.rejections = Append(c.rejections, e)
     /\ phase' = "built" => (phase = "feeding" /\ d = c /\ d.raised = <<>>)
     /\ phase' = "raised" =>
          /\ phase = "preparing"
          /\ c.tried = c.prepared /\ Len(c.rejections) = c.prepared
          /\ d.rejections = c.rejections
          /\ d.raised =
               <<"The markup you provided was rejected by the parser. "
                 \o "Trying a different parser or a different encoding may help.\n\n"
                 \o "Original exception(s) from parser:\n "
                 \o JoinWith("\n ", c.rejections)>>
     /\ phase' # "raised" => d.raised = <<>>

\* C27: the constructor tries the prepared strategies in order and stops at
\* the first one that is accepted; it raises one aggregated error only after
\* every strategy was rejected, and the error carries the cause of each
\* rejected attempt.
FirstAcceptedStrategyWins ==
  [][ConstructorStep]_vars

\* C27's case: the first strategy was rejected and the second accepted, the
\* third never tried.
SecondStrategyAccepted ==
  /\ phase = "built"
  /\ construction.prepared = 3 /\ construction.tried = 2
  /\ construction.rejections = <<"e1">>
  /\ construction.raised = <<>>

\* C27's other case: all three strategies were rejected and the error names
\* the three causes.
AllStrategiesRejected ==
  /\ phase = "raised"
  /\ construction.rejections = <<"e1", "e2", "e1">>
  /\ construction.raised # <<>>

\* The nodes below `self` that the strainer matches, in document order.
Matching(strainer, self) ==
  LET Test(i) == search(strainer, Soup, i)
  IN SelectSeq(Below(Tree, self), Test)

\* C28: find_all with a limit n > 0 returns the first n matching nodes in
\* document order, or all of them when there are fewer, and has taken from
\* the traversal no node after the n-th match.
FindAllStopsAtLimit ==
  (last.op = "find_all" /\ last.res.limit > 0) =>
    LET all == Matching(last.res.strainer, last.self)
        order == Below(Tree, last.self)
        n == last.res.limit
        r == last.res.found
    IN /\ r.res = "ok"
       /\ r.results = SubSeq(all, 1, Min(n, Len(all)))
       /\ IF Len(all) >= n
            THEN r.examined >= 1 /\ order[r.examined] = all[n]
            ELSE r.examined = Len(order)

\* C28's case: find_all('a', limit=1) on a document with a second, later
\* <a> returned the first and stopped there.
FindAllStoppedEarly ==
  /\ last.op = "find_all" /\ last.self = Root
  /\ last.res.limit = 1
  /\ last.res.strainer = [name |-> Str("a"), attrs |-> <<>>, string |-> PyNone]
  /\ Len(last.res.found.results) = 1
  /\ Len(Matching(last.res.strainer, Root)) = 2
  /\ last.res.found.examined < Len(Below(Tree, Root))

\* The strainers with a literal name filter and a literal filter on class.
LiteralStrainers ==
  {q \in Strainers :
     /\ q.name.kind = "str" /\ q.string = PyNone
     /\ DOMAIN q.attrs = {"class"} /\ q.attrs.class.kind = "str"}

\* A value of the multi-valued attribute class equals the filter, or the
\* values joined by spaces do.
ClassFits(n, filter) ==
  /\ "class" \in DOMAIN attrs[n]
  /\ \/ \E i \in 1 .. Len(attrs[n].class.v) : attrs[n].class.v[i] = filter
     \/ JoinWith(" ", attrs[n].class.v) = filter

NoneFilterRestrictsNothing ==
  \A q \in Strainers, n \in Nodes :
    (IsTag(n) /\ n # Root /\ cls[n] # "") =>
      /\ (q.name = PyNone /\ q.attrs = <<>> /\ q.string = PyNone) =>
           search(q, Soup, n)
      /\ (q.string = PyNone /\ search(q, Soup, n)) =>
           search([q EXCEPT !.name = PyNone], Soup, n)
      /\ (q.attrs = [class |-> PyNone] /\ q.string = PyNone) =>
           (search(q, Soup, n) <=> search([q EXCEPT !.attrs = <<>>], Soup, n))

\* Whether an html tag, opening or closing, starts and ends within the first
\* HtmlWindow characters of the text.
HtmlTagInWindow(text) ==
  \E i \in 1 .. Min(Len(text), HtmlWindow) - 4 :
    /\ text[i] = "<"
    /\ \/ <<Lower(text[i + 1]), Lower(text[i + 2]), Lower(text[i + 3]),
            Lower(text[i + 4])>> = <<"h", "t", "m", "l">>
       \/ /\ i + 5 <= Min(Len(text), HtmlWindow)
          /\ text[i + 1] = "/"
          /\ <<Lower(text[i + 2]), Lower(text[i + 3]), Lower(text[i + 4]),
               Lower(text[i + 5])>> = <<"h", "t", "m", "l">>

\* C31: warn_if_markup_looks_like_xml returns True, having warned, exactly
\* when the markup starts with '<?xml' and no html tag occurs in its first
\* 500 characters, and returns the same for the text and for the bytes of
\* a markup.
WarnsExactlyForXmlWithoutHtml ==
  last.op = "warn_if_markup_looks_like_xml" =>
    LET text == Text(construction.markup)
    IN /\ last.res.result =
            (/\ Len(text) >= 5 /\ SubSeq(text, 1, 5) = <<"<", "?", "x", "m", "l">>
             /\ ~HtmlTagInWindow(text))
       /\ warn_if_markup_looks_like_xml(text, FALSE)
            = warn_if_markup_looks_like_xml(Encode(construction.markup), TRUE)

\* The *args tuples of up to k values, each an object or None.
ArgTuplesOrNone(k) == UNION {[1 .. j -> Objects \cup {Null}] : j \in 0 .. k}

\* C32: insert_after does all its error checking before it modifies the
\* tree: whenever insert_after(node, *args) raises, for any number of
\* arguments, the tree is exactly as it was before the call.
InsertAfterRaisesBeforeModifying ==
  Settled =>
    \A node \in Objects, args \in ArgTuplesOrNone(MaxArgs) :
      insert_after(Tree, node, args).res \in Raised =>
        insert_after(Tree, node, args).t = Tree

\* C33: find_all with only a name, which is None, True or a literal string
\* with or without one namespace prefix, and no limit returns, node for node
\* and in order, what calling strainer.search on each node of the same
\* traversal collects; so find_all(name, limit=n) is the first n nodes of
\* find_all(name).
FastPathsAgreeWithStrainer ==
  (last.op = "find_all" /\ last.res.limit = 0) =>
    LET general(n) == FindAllLoop(Soup, last.res.strainer, n,
                                  descendants(Tree, last.self), 0, <<>>)
        fast == last.res.found
    IN /\ fast.res = "ok"
       /\ fast.results = general(0).results
       /\ \A n \in 1 .. MaxLimit :
            find_all(Soup, last.self, last.res.strainer, n).results
              = SubSeq(fast.results, 1, Min(n, Len(fast.results)))

\* C34: in every tree reached by builder events and mutator calls, for every
\* node n of the document that has a next sibling s, s.previous_element is
\* the node reached from n by taking the last child again and again: the
\* shortcut of _last_descendant agrees with its walk.
LastDescendantShortcutAgrees ==
  phase \in {"feeding", "built"} =>
    \A n \in DocumentNodes(Tree) :
      next_sibling[n] # Null =>
        _last_descendant(Tree, n, TRUE) = _last_descendant(Tree, n, FALSE)

\* C35: after any sequence of handle_starttag, handle_data and handle_endtag
\* events, end tags that match no open element included, the open stack is
\* not empty, the root is at its bottom and nowhere else, and currentTag is
\* its top.
RootStaysAtBottomOfStack ==
  phase \in {"feeding", "built"} =>
    /\ tagStack # <<>>
    /\ tagStack[1] = Root
    /\ \A i \in 2 .. Len(tagStack) : tagStack[i] # Root
    /\ currentTag = tagStack[Len(tagStack)]

\* C35's case: an end tag arrived for a name that is open with another
\* prefix only; every element above the root was popped and the root stayed.
EndTagMatchedNothing ==
  /\ phase = "feeding" /\ last.op = "handle_endtag"
  /\ tagStack = <<Root>> /\ currentTag = Root
  /\ \E n \in Range(contents[Root]) :
       /\ IsTag(n) /\ prefix[n] = Str("n")
       /\ \E m \in Range(contents[n]) : IsTag(m) /\ prefix[m] = Str("n")

\* The end of a parse: the step that takes the feed to the built document
\* flushes the pending text, into one string when `kept`, and leaves the
\* root alone on the open-element stack, the stacks of whitespace
\* preservers and of string containers empty and every open-name count zero.
ParseEnds(kept) ==
  (phase = "feeding" /\ phase' = "built") =>
    /\ TextFlushed(kept)
    /\ current_data' = <<>>
    /\ tagStack' = <<Root>> /\ currentTag' = Root
    /\ preserve_whitespace_tag_stack' = <<>>
    /\ string_container_stack' = <<>>
    /\ \A nm \in DOMAIN open_tag_counter' : open_tag_counter'[nm] = 0

\* C36 as stated: when a parse finishes, after any sequence of events,
\* unclosed tags and trailing text included, the pending text has been
\* flushed into a node and every open element closed: the stack holds the
\* root only, the whitespace-preservation and string-container stacks are
\* empty and every open-name count is zero.
ParseEndsFlushedAndClosed == [][ParseEnds(TRUE)]_vars

\* C36, amended: the same, except that trailing text flushed while a
\* partial-parse filter is set and no element is open becomes no node
\* unless the filter has a string filter that matches it.
ParseEndsKeptFlushedAndClosed == [][ParseEnds(~FilterDropsText)]_vars

\* C36's case: a parse has finished whose document has an element inside an
\* element inside a whitespace preserver or string container, with text in
\* the innermost, as a feed that ends with all three open leaves it.
FinishedWithNestedText ==
  /\ phase = "built" /\ last.op = "_feed"
  /\ \E a, b, o \in Nodes :
       /\ contents[Root] = <<a>> /\ contents[a] = <<b>> /\ contents[b] = <<o>>
       /\ name[a] \in PreserveWhitespaceTags \cup DOMAIN StringContainers
       /\ ~IsTag(o)

\* The step that starts an attempt: reset() leaves a document without
\* children or links and an empty parse state, whatever the attempt before
\* had built.
AttemptStartsClean ==
  (phase = "preparing" /\ phase' = "feeding") =>
    /\ contents'[Root] = <<>>
    /\ next_element'[Root] = Null /\ previous_element'[Root] = Null
    /\ tagStack' = <<Root>> /\ currentTag' = Root
    /\ \A nm \in vocab.names : CounterGet(open_tag_counter', nm) = 0
    /\ current_data' = <<>>
    /\ most_recent_element' = Null
    /\ preserve_whitespace_tag_stack' = <<>>
    /\ string_container_stack' = <<>>

\* A step of the feed: the nodes that join the document are nodes the step
\* itself creates, and the stack and most_recent_element refer to nodes of
\* the document only; the document the feed ends with is well formed.
AttemptBuildsFromItsOwn ==
  (phase = "feeding" /\ phase' \in {"feeding", "built"}) =>
    /\ DocumentNodes(TreeNext) \ DocumentNodes(Tree) \subseteq CreatedIn
    /\ Range(tagStack') \subseteq DocumentNodes(TreeNext)
    /\ most_recent_element' \in DocumentNodes(TreeNext) \cup {Null}
    /\ phase' = "built" => DocumentWellFormed(TreeNext)

\* C37: the parse state is reset before every attempt, so that when an
\* attempt is rejected part-way and a later one succeeds, the final tree
\* holds only nodes the successful attempt created, and the stack, the
\* open-name counter, the text buffer and most_recent_element carry nothing
\* over.
AttemptsShareNothing == [][AttemptStartsClean /\ AttemptBuildsFromItsOwn]_vars

\* C37's case: the first attempt was rejected after it had built nodes and
\* had text pending; the second one was fed to its end and built a document
\* in which the nodes of the first are not.
BuiltAfterRejectedAttempt ==
  /\ phase = "built"
  /\ construction.tried = 2 /\ Len(construction.rejections) = 1
  /\ contents[Root] # <<>>
  /\ \E n \in Nodes :
       /\ IsTag(n) /\ cls[n] # "" /\ n \notin DocumentNodes(Tree)
       /\ parent[n] = Root

\* C38: after reparentChildren(element, new_parent) on a well-formed tree,
\* new_parent's contents are its former children followed by element's
\* former children in order, element has no children, and the whole tree has
\* a consistent document order: next_element is the pre-order, with
\* element.next_element and the node after new_parent's subtree in it, and
\* previous_element is its exact inverse.
ReparentKeepsDocumentOrder ==
  [][\A element, new_parent \in Nodes :
       (ReparentChildren(element, new_parent) /\ WellFormed(Tree)) =>
         /\ contents'[new_parent] = contents[new_parent] \o contents[element]
         /\ contents'[element] = <<>>
         /\ \A child \in Range(contents[element]) : parent'[child] = new_parent
         /\ WellFormed(TreeNext)]_vars

\* The registered builders that advertise every one of the features.
HavingAll(features) ==
  {b \in Range(construction.builders) :
     \A i \in 1 .. Len(features) : features[i] \in Range(TreeBuilders[b])}

\* C39: after any sequence of register calls, lookup(f1..fk) returns the
\* most recently registered builder that has every requested feature, and
\* None when no registered builder has them all, a requested feature that no
\* builder offers included.
LookupReturnsBuilderWithAllFeatures ==
  last.op = "lookup" =>
    LET having == HavingAll(last.res.features)
        builders == construction.builders
    IN IF having = {}
         THEN last.res.found = PyNone
         ELSE \E i \in 1 .. Len(builders) :
                /\ last.res.found = Str(builders[i])
                /\ builders[i] \in having
                /\ \A j \in 1 .. i - 1 : builders[j] \notin having

RECURSIVE TextUnder(_, _)
\* The values of the strings among `nodes`, joined in that order.
TextUnder(val, nodes) ==
  IF nodes = <<>> THEN <<>>
  ELSE (IF IsTag(Head(nodes)) THEN <<>> ELSE val[Head(nodes)])
       \o TextUnder(val, Tail(nodes))

\* E has two neighbouring children that are both strings, neither of them
\* preformatted.
HasAdjacentStrings(t, classes, E) ==
  \E i \in 1 .. Len(t.contents[E]) - 1 :
    /\ ~IsTag(t.contents[E][i]) /\ ~IsTag(t.contents[E][i + 1])
    /\ classes[t.contents[E][i]] \notin PreformattedStrings
    /\ classes[t.contents[E][i + 1]] \notin PreformattedStrings

\* What a call of smooth() on `self` leaves behind.
Smoothed(self) ==
  /\ last'.res = "ok"
  /\ \A E \in {self} \cup Range(Below(TreeNext, self)) :
       IsTag(E) =>
         /\ ~HasAdjacentStrings(TreeNext, cls', E)
         /\ SelectSeq(contents'[E], IsTag) = SelectSeq(contents[E], IsTag)
  /\ TextUnder(value', Below(TreeNext, self)) =
       TextUnder(value, Below(Tree, self))
  /\ WellFormed(TreeNext)

\* C40: after smooth() on an element of a well-formed tree no element of its
\* subtree has two adjacent children that are both plain text nodes, the
\* text of the subtree read in document order is what it was, the children
\* that are tags keep their order, and the tree is still well-formed.
SmoothLeavesNoAdjacentStrings ==
  [][\A self \in Nodes :
       (Smooth(self) /\ WellFormed(Tree)) => Smoothed(self)]_vars

\* A smooth() call has joined "x" and "y" into one string of the document.
SmoothJoinedTwoStrings ==
  /\ last.op = "smooth"
  /\ \E n \in Range(Below(Tree, Root)) : ~IsTag(n) /\ value[n] = <<"x", "y">>

====
